---- MODULE Spec2Model ----
(***************************************************************************)
(* State-machine model of the Prayer Times Kerala service worker           *)
(* (generation v2.1.0, src/unnamed/part_000) and of the generation it      *)
(* replaces (v2.0.0, src/dashboard/sw.js).                                 *)
(*                                                                         *)
(* The scheduler part models the three IndexedDB object stores, the        *)
(* recurring scan timer and every invocation of scheduleNotifications and  *)
(* checkAndShowNotifications as a task that advances one store operation   *)
(* (one await) at a time, so that invocations interleave exactly where the *)
(* JavaScript event loop lets them.                                        *)
(*                                                                         *)
(* The cache part models Cache Storage as the list of partitions in        *)
(* creation order, the lifecycle of the two generations (install,          *)
(* activate, replacement) and the fetch and message handlers as handlers   *)
(* that advance one await at a time; a cache.put that the code does not    *)
(* await is a step of its own.                                             *)
(*                                                                         *)
(* Failures are actions of their own, used by the specifications that      *)
(* study them: SpecStoreFail (IndexedDB open and request failures),        *)
(* SpecCacheFault (caches.open and cache.put failures, messages without a  *)
(* reply port).  SpecInterleave and SpecCacheRace let handlers overlap.    *)
(***************************************************************************)
EXTENDS Integers, Sequences, FiniteSets, TLC

\* ------------------------------------------------------------------------
\* Bounds of the model
\* ------------------------------------------------------------------------
MaxTasks == 2
MaxClockTicks == 5
MaxShown == 2
MaxTimers == 2
MaxHandlers == 2
MaxActivations == 2
MaxFailTicks == 2

\* ------------------------------------------------------------------------
\* Program constants
\* ------------------------------------------------------------------------
WINDOW_MS == 60000
CHECK_PERIOD_MS == 30000
MS_PER_MINUTE == 60000
MS_PER_HOUR == 3600000
MS_PER_DAY == 86400000

\* Object.entries(timeMapping): insertion order of the object literal.
PrayerOrder == <<"fajr", "sunrise", "dhuhr", "asr", "maghrib", "isha">>
Prayers == {PrayerOrder[i] : i \in 1..Len(PrayerOrder)}

timeMapping ==
  [fajr |-> "subh", sunrise |-> "sunrise", dhuhr |-> "duhr",
   asr |-> "asar", maghrib |-> "maghrib", isha |-> "isha"]

\* Keys of PRAYER_MESSAGES.
PRAYER_MESSAGES == {"fajr", "sunrise", "dhuhr", "asr", "maghrib", "isha"}

\* IndexedDB returns getAll() in ascending key order (keyPath "id").
KeyOrder == <<"asr", "dhuhr", "fajr", "isha", "maghrib", "sunrise">>

\* ------------------------------------------------------------------------
\* Values
\* ------------------------------------------------------------------------
\* undefined / null: what dbGet yields for a missing key.
Undefined == [absent |-> TRUE]
\* parseTimeToDate's null.
NullDate == -1
\* notificationCheckInterval = null.
NullTimer == 0

\* A time string is the sequence of its characters.
Digits == {"0", "1", "2", "3", "4", "5", "6", "7", "8", "9"}

DigitVal(c) ==
  CASE c = "0" -> 0 [] c = "1" -> 1 [] c = "2" -> 2 [] c = "3" -> 3
    [] c = "4" -> 4 [] c = "5" -> 5 [] c = "6" -> 6 [] c = "7" -> 7
    [] c = "8" -> 8 [] c = "9" -> 9

IsDigitAt(s, i) == i >= 1 /\ i <= Len(s) /\ s[i] \in Digits
\* A character of a string is written as itself when it is an ASCII
\* character, and by the name of its code point, U+ and four hexadecimal
\* digits, when it is not: "U+2003" is EM SPACE, "U+00E9" is e with acute.
\* The 25 characters \s matches: tab, line feed, vertical tab, form feed,
\* carriage return, blank, U+00A0, U+1680, U+2000 to U+200A, U+2028,
\* U+2029, U+202F, U+205F, U+3000 and U+FEFF.
WhiteSpace ==
  {"\t", "\n", "", "\f", "\r", " ",
   "U+00A0", "U+1680",
   "U+2000", "U+2001", "U+2002", "U+2003", "U+2004", "U+2005", "U+2006",
   "U+2007", "U+2008", "U+2009", "U+200A",
   "U+2028", "U+2029", "U+202F", "U+205F", "U+3000", "U+FEFF"}

IsSpaceAt(s, i) == i >= 1 /\ i <= Len(s) /\ s[i] \in WhiteSpace

\* \s* is greedy and neither A nor P is white space: the run of white
\* space starting at i is consumed whole.
RECURSIVE SkipSpaces(_, _)
SkipSpaces(s, i) == IF IsSpaceAt(s, i) THEN SkipSpaces(s, i + 1) ELSE i

\* /(\d{1,2}):(\d{2})\s*(AM|PM)/i tried at position i with d hour digits.
MatchAt(s, i, d) ==
  /\ \A k \in 0..(d - 1) : IsDigitAt(s, i + k)
  /\ i + d <= Len(s) /\ s[i + d] = ":"
  /\ IsDigitAt(s, i + d + 1)
  /\ IsDigitAt(s, i + d + 2)
  /\ LET j == SkipSpaces(s, i + d + 3)
     IN  /\ j + 1 <= Len(s)
         /\ s[j] \in {"A", "a", "P", "p"}
         /\ s[j + 1] \in {"M", "m"}

MatchStarts(s) == {i \in 1..Len(s) : MatchAt(s, i, 2) \/ MatchAt(s, i, 1)}

\* Local midnight of the day the clock is in.
StartOfDay(clk) == (clk \div MS_PER_DAY) * MS_PER_DAY

\* parseTimeToDate(timeStr), evaluated when the clock reads clk.  The result
\* is the epoch-millisecond value of the Date, or NullDate.
parseTimeToDate(timeStr, clk) ==
  IF Len(timeStr) = 0 THEN NullDate
  ELSE IF MatchStarts(timeStr) = {} THEN NullDate
  ELSE
    LET i == CHOOSE m \in MatchStarts(timeStr) :
               \A n \in MatchStarts(timeStr) : m <= n
        d == IF MatchAt(timeStr, i, 2) THEN 2 ELSE 1
        h0 == IF d = 2
              THEN 10 * DigitVal(timeStr[i]) + DigitVal(timeStr[i + 1])
              ELSE DigitVal(timeStr[i])
        minutes == 10 * DigitVal(timeStr[i + d + 1]) + DigitVal(timeStr[i + d + 2])
        j == SkipSpaces(timeStr, i + d + 3)
        period == IF timeStr[j] \in {"P", "p"} THEN "PM" ELSE "AM"
        hours == IF period = "PM" /\ h0 # 12 THEN h0 + 12
                 ELSE IF period = "AM" /\ h0 = 12 THEN 0
                 ELSE h0
    IN  StartOfDay(clk) + hours * MS_PER_HOUR + minutes * MS_PER_MINUTE

\* ------------------------------------------------------------------------
\* Inputs: the payloads the page sends
\* ------------------------------------------------------------------------
T_1201_AM == <<"1", "2", ":", "0", "1", " ", "A", "M">>
T_1202_am == <<"1", "2", ":", "0", "2", " ", "a", "m">>
T_1202AM == <<"1", "2", ":", "0", "2", "A", "M">>
T_0001 == <<"0", "0", ":", "0", "1">>
T_7_PM == <<"7", " ", "P", "M">>
T_EMPTY == <<>>

\* data of UPDATE_PRAYER_TIMES.  A key the payload lacks is a field the
\* record lacks.
T_1230_PM == <<"1", "2", ":", "3", "0", " ", "P", "M">>
T_105_PM == <<"1", ":", "0", "5", " ", "P", "M">>
T_1159_PM == <<"1", "1", ":", "5", "9", " ", "P", "M">>
T_507am == <<"5", ":", "0", "7", "a", "m">>
T_1305_PM == <<"1", "3", ":", "0", "5", " ", "P", "M">>
T_1305_AM == <<"1", "3", ":", "0", "5", " ", "A", "M">>
T_507_tab_AM == <<"5", ":", "0", "7", "\t", "A", "M">>
T_100_ws_PM == <<"1", ":", "0", "0", " ", "\t", "\n", "P", "M">>
T_100_em_AM == <<"1", ":", "0", "0", "U+2003", "A", "M">>
T_100_nbsp_PM == <<"1", ":", "0", "0", "U+00A0", "U+3000", "P", "M">>
T_100_eacute_AM == <<"1", ":", "0", "0", "U+00E9", "A", "M">>

\* Time strings for the parser: in range, at the edges of the 12-hour
\* clock, out of range, with white space other than blanks, with a
\* character that is not white space before the suffix, without minutes,
\* without suffix, empty.
ParseInputs ==
  {T_1201_AM, T_1202_am, T_1202AM, T_1230_PM, T_105_PM, T_1159_PM, T_507am,
   T_1305_PM, T_1305_AM, T_507_tab_AM, T_100_ws_PM, T_100_em_AM,
   T_100_nbsp_PM, T_100_eacute_AM, T_0001, T_7_PM, T_EMPTY}

PrayerTimesPayloads ==
  { [subh |-> T_1201_AM, sunrise |-> T_1201_AM, duhr |-> T_1202_am,
     asar |-> T_EMPTY, maghrib |-> T_7_PM, location |-> "Kuttiady"],
    [subh |-> T_0001, duhr |-> T_1202AM] }

DefaultPrayers ==
  [fajr |-> TRUE, sunrise |-> FALSE, dhuhr |-> TRUE,
   asr |-> TRUE, maghrib |-> TRUE, isha |-> TRUE]

\* data of UPDATE_NOTIFICATION_SETTINGS.
SettingsPayloads ==
  { [enabled |-> TRUE, prayers |-> DefaultPrayers],
    [enabled |-> TRUE,
     prayers |-> [DefaultPrayers EXCEPT !.fajr = FALSE]],
    [enabled |-> FALSE, prayers |-> DefaultPrayers] }

\* ------------------------------------------------------------------------
\* State
\* ------------------------------------------------------------------------
VARIABLES
  clock,                     \* Date.now(), in ms
  settingsStore,             \* object store "settings", key -> record
  prayerTimesStore,          \* object store "prayerTimes", key -> record
  scheduledStore,            \* object store "scheduledNotifications"
  tasks,                     \* the handler invocations in flight
  notificationCheckInterval, \* the module-level timer handle
  timers,                    \* the intervals that are set (not cleared)
  due,                       \* intervals whose callback is due
  timerSeq,                  \* last id setInterval returned
  displayed,                 \* notification on screen, per tag prayer-<p>
  emitted,                   \* history: showNotification calls per <<prayer, time>>
  everNotified,              \* history: <<prayer, time>> stored with notified = true
  schedNow,                  \* history: `now` of the latest recomputation that cleared
  createdNow,                \* history: per <<prayer, time>> stored or held, the latest `now` of a recomputation that put the entry
  missed                     \* history: <<prayer, time>> a scan read pending and more than 60 s past

schedVars ==
  <<clock, settingsStore, prayerTimesStore, scheduledStore, tasks,
    notificationCheckInterval, timers, due, timerSeq, displayed, emitted,
    everNotified, schedNow, createdNow, missed>>

VARIABLES
  cacheStorage,  \* Cache Storage: the partitions <<[name, entries]>> in creation order
  worker,        \* lifecycle state of each generation's worker
  handlers,      \* event handlers in flight, one record per slot
  actRuns,       \* history: activation runs of the latest generation since its install
  touched        \* history: a fetch or a command was handled since the latest install began

cacheVars == <<cacheStorage, worker, handlers, actRuns, touched>>

TaskIds == 1..MaxTasks

IdleTask ==
  [kind |-> "idle", pc |-> "idle", data |-> Undefined, settings |-> Undefined,
   pt |-> Undefined, now |-> 0, list |-> <<>>, idx |-> 0, cur |-> Undefined,
   loc |-> "", inActivate |-> FALSE]

\* ------------------------------------------------------------------------
\* IndexedDB helpers (the request succeeds)
\* ------------------------------------------------------------------------
dbGet(store, key) == IF key \in DOMAIN store THEN store[key] ELSE Undefined

dbPut(store, data) ==
  [k \in DOMAIN store \cup {data.id} |-> IF k = data.id THEN data ELSE store[k]]

\* The records in ascending key order.
RECURSIVE InKeyOrder(_, _)
InKeyOrder(store, i) ==
  IF i > Len(KeyOrder) THEN <<>>
  ELSE (IF KeyOrder[i] \in DOMAIN store THEN <<store[KeyOrder[i]]>> ELSE <<>>)
       \o InKeyOrder(store, i + 1)

dbGetAll(store) == InKeyOrder(store, 1)

dbClear == <<>>

\* obj[key] of a JavaScript object: undefined when the key is missing.  A
\* missing time string and an empty one are both falsy and are not told apart.
Prop(obj, key) == IF key \in DOMAIN obj THEN obj[key] ELSE <<>>

DefaultSettings ==
  [id |-> "notifications", enabled |-> FALSE, prayers |-> DefaultPrayers]

\* getNotificationSettings: the stored record, or the defaults.
getNotificationSettings ==
  LET settings == dbGet(settingsStore, "notifications")
  IN  IF settings = Undefined THEN DefaultSettings ELSE settings

getPrayerTimes == dbGet(prayerTimesStore, "today")

\* ------------------------------------------------------------------------
\* Task bookkeeping
\* ------------------------------------------------------------------------
Idle(k) == tasks[k].kind = "idle"
AllIdle == \A k \in TaskIds : Idle(k)
IdleCount == Cardinality({k \in TaskIds : Idle(k)})

\* A new invocation takes the lowest free slot (slots carry no meaning).
FreeSlot == CHOOSE k \in TaskIds : Idle(k) /\ \A j \in TaskIds : Idle(j) => k <= j

Min(a, b) == IF a <= b THEN a ELSE b

Count(p, t) == IF <<p, t>> \in DOMAIN emitted THEN emitted[<<p, t>>] ELSE 0

\* The history of showNotification calls, one more for <<p, t>>; it stops
\* counting at MaxShown.
Emit(p, t) ==
  [x \in DOMAIN emitted \cup {<<p, t>>} |->
     IF x = <<p, t>> THEN Min(MaxShown, Count(p, t) + 1) ELSE emitted[x]]

\* ------------------------------------------------------------------------
\* scheduleNotifications
\* ------------------------------------------------------------------------
\* Schedulable with the comparison prayerTime >= now.
Schedulable_NotStrict(settings, prayerTimes, now, clk, i) ==
  LET prayer == PrayerOrder[i]
      apiKey == timeMapping[prayer]
  IN  /\ settings.prayers[prayer]
      /\ Len(Prop(prayerTimes, apiKey)) > 0
      /\ LET prayerTime == parseTimeToDate(prayerTimes[apiKey], clk)
         IN  prayerTime # NullDate /\ prayerTime >= now

\* Schedulable without the test of settings.prayers[prayer].
Schedulable_IgnoreEnabled(settings, prayerTimes, now, clk, i) ==
  LET prayer == PrayerOrder[i]
      apiKey == timeMapping[prayer]
  IN  /\ Len(Prop(prayerTimes, apiKey)) > 0
      /\ LET prayerTime == parseTimeToDate(prayerTimes[apiKey], clk)
         IN  prayerTime # NullDate /\ prayerTime > now

\* Schedulable without the test prayerTime > now.
Schedulable_AnyTime(settings, prayerTimes, now, clk, i) ==
  LET prayer == PrayerOrder[i]
      apiKey == timeMapping[prayer]
  IN  /\ settings.prayers[prayer]
      /\ Len(Prop(prayerTimes, apiKey)) > 0
      /\ parseTimeToDate(prayerTimes[apiKey], clk) # NullDate

\* The loop body's test for prayer number i, evaluated when the clock reads clk.
Schedulable(settings, prayerTimes, now, clk, i) ==
  LET prayer == PrayerOrder[i]
      apiKey == timeMapping[prayer]
  IN  /\ settings.prayers[prayer]
      /\ Len(Prop(prayerTimes, apiKey)) > 0
      /\ LET prayerTime == parseTimeToDate(prayerTimes[apiKey], clk)
         IN  prayerTime # NullDate /\ prayerTime > now

\* The record the loop body puts for prayer number i.
NewEntry(prayerTimes, clk, i) ==
  LET prayer == PrayerOrder[i]
      apiKey == timeMapping[prayer]
  IN  [id |-> prayer, prayer |-> prayer,
       time |-> parseTimeToDate(prayerTimes[apiKey], clk),
       timeStr |-> prayerTimes[apiKey], notified |-> FALSE]

\* The loop runs on, without suspending, to the next prayer it puts: the
\* first schedulable index from `from`, or 0 when the loop ends.
NextSchedulable(settings, prayerTimes, now, clk, from) ==
  LET S == {i \in from..Len(PrayerOrder) :
              Schedulable(settings, prayerTimes, now, clk, i)}
  IN  IF S = {} THEN 0 ELSE CHOOSE i \in S : \A j \in S : i <= j

\* The task goes on to put prayer number i, or is done.
SchedAdvance(t, clk, i) ==
  IF i = 0
  THEN [t EXCEPT !.pc = "done", !.idx = 0, !.cur = Undefined]
  ELSE [t EXCEPT !.pc = "s_put", !.idx = i, !.cur = NewEntry(t.pt, clk, i)]

\* const settings = await getNotificationSettings();
SchedGetSettings(k) ==
  /\ tasks[k].pc = "s_getSettings"
  /\ tasks' = [tasks EXCEPT ![k].settings = getNotificationSettings,
                            ![k].pc = "s_getTimes"]
  /\ UNCHANGED <<clock, settingsStore, prayerTimesStore, scheduledStore,
                 notificationCheckInterval, timers, due, timerSeq, displayed,
                 emitted, everNotified, schedNow,
                 createdNow>>
  /\ UNCHANGED missed
  /\ UNCHANGED cacheVars

\* const prayerTimes = await getPrayerTimes(); and the early return.
SchedGetTimes(k) ==
  /\ tasks[k].pc = "s_getTimes"
  /\ LET prayerTimes == getPrayerTimes
     IN  tasks' = [tasks EXCEPT
           ![k].pt = prayerTimes,
           ![k].pc = IF ~tasks[k].settings.enabled \/ prayerTimes = Undefined
                     THEN "done" ELSE "s_clear"]
  /\ UNCHANGED <<clock, settingsStore, prayerTimesStore, scheduledStore,
                 notificationCheckInterval, timers, due, timerSeq, displayed,
                 emitted, everNotified, schedNow,
                 createdNow>>
  /\ UNCHANGED missed
  /\ UNCHANGED cacheVars

\* The entries, known by prayer and fire time, that the invocations in
\* flight hold: the records a scan has read, the record a recomputation is
\* about to put.
Held ==
  UNION {{<<tasks[j].list[i].id, tasks[j].list[i].time>> : i \in 1..Len(tasks[j].list)}
           : j \in TaskIds}
  \cup {<<tasks[j].cur.id, tasks[j].cur.time>> :
          j \in {i \in TaskIds : tasks[i].pc = "s_put"}}

\* await dbClear("scheduledNotifications"); const now = new Date(); and the
\* loop up to its first put.  The history keeps the entries that are still
\* held.
SchedClear(k) ==
  /\ tasks[k].pc = "s_clear"
  /\ scheduledStore' = dbClear
  /\ LET t == [tasks[k] EXCEPT !.now = clock]
     IN  tasks' = [tasks EXCEPT ![k] =
           SchedAdvance(t, clock,
             NextSchedulable(t.settings, t.pt, clock, clock, 1))]
  /\ schedNow' = clock
  /\ createdNow' = [x \in DOMAIN createdNow \cap Held |-> createdNow[x]]
  /\ UNCHANGED <<clock, settingsStore, prayerTimesStore,
                 notificationCheckInterval, timers, due, timerSeq, displayed,
                 emitted, everNotified>>
  /\ UNCHANGED missed
  /\ UNCHANGED cacheVars

\* The history of the entries recomputations created: the entry, known by
\* its prayer and fire time, is recorded with the `now` its recomputation
\* read, the latest one when several recomputations created it.
Created(entry, now) ==
  LET key == <<entry.id, entry.time>>
  IN  [x \in DOMAIN createdNow \cup {key} |->
         IF x = key
         THEN (IF key \in DOMAIN createdNow /\ createdNow[key] > now
               THEN createdNow[key] ELSE now)
         ELSE createdNow[x]]

\* await dbPut("scheduledNotifications", {...}); and the loop up to its next put.
SchedPut(k) ==
  /\ tasks[k].pc = "s_put"
  /\ scheduledStore' = dbPut(scheduledStore, tasks[k].cur)
  /\ LET t == tasks[k]
     IN  tasks' = [tasks EXCEPT ![k] =
           SchedAdvance(t, clock,
             NextSchedulable(t.settings, t.pt, t.now, clock, t.idx + 1))]
  /\ createdNow' = Created(tasks[k].cur, tasks[k].now)
  /\ UNCHANGED <<clock, settingsStore, prayerTimesStore,
                 notificationCheckInterval, timers, due, timerSeq, displayed,
                 emitted, everNotified, schedNow>>
  /\ UNCHANGED missed
  /\ UNCHANGED cacheVars

\* ------------------------------------------------------------------------
\* checkAndShowNotifications and showPrayerNotification
\* ------------------------------------------------------------------------
\* InWindow without the test timeDiff >= -60000.
InWindow_NoLowerBound(time, now) ==
  LET timeDiff == time - now
  IN  timeDiff <= WINDOW_MS

\* timeDiff <= 60000 && timeDiff >= -60000
InWindow(time, now) ==
  LET timeDiff == time - now
  IN  timeDiff <= WINDOW_MS /\ timeDiff >= -WINDOW_MS

\* ShouldFire without `if (notification.notified) continue`.
ShouldFire_IgnoreNotified(notification, now) ==
  InWindow(notification.time, now)

\* The test the loop body makes on a record before it shows it.
ShouldFire(notification, now) ==
  ~notification.notified /\ InWindow(notification.time, now)

\* The loop runs on, without suspending, to the next record it shows: the
\* first index from `from` that fires, or 0 when the loop ends.
NextToFire(list, now, from) ==
  LET S == {i \in from..Len(list) : ShouldFire(list[i], now)}
  IN  IF S = {} THEN 0 ELSE CHOOSE i \in S : \A j \in S : i <= j

\* showPrayerNotification returns at once for a prayer without a template.
ScanAdvance(t, i) ==
  IF i = 0 THEN [t EXCEPT !.pc = "done", !.idx = 0]
  ELSE IF t.list[i].prayer \notin PRAYER_MESSAGES
  THEN [t EXCEPT !.pc = "c_put", !.idx = i, !.list[i].notified = TRUE]
  ELSE [t EXCEPT !.pc = "c_getTimes", !.idx = i]

\* const settings = await getNotificationSettings(); and the early return.
ScanGetSettings(k) ==
  /\ tasks[k].pc = "c_getSettings"
  /\ LET settings == getNotificationSettings
     IN  tasks' = [tasks EXCEPT
           ![k].settings = settings,
           ![k].pc = IF ~settings.enabled THEN "done" ELSE "c_getAll"]
  /\ UNCHANGED <<clock, settingsStore, prayerTimesStore, scheduledStore,
                 notificationCheckInterval, timers, due, timerSeq, displayed,
                 emitted, everNotified, schedNow,
                 createdNow>>
  /\ UNCHANGED missed
  /\ UNCHANGED cacheVars

\* const scheduledNotifications = await dbGetAll(...); const now = Date.now();
\* and the loop up to the first record it shows.
ScanGetAll(k) ==
  /\ tasks[k].pc = "c_getAll"
  /\ LET list == dbGetAll(scheduledStore)
         t == [tasks[k] EXCEPT !.list = list, !.now = clock]
     IN  tasks' = [tasks EXCEPT ![k] = ScanAdvance(t, NextToFire(list, clock, 1))]
  /\ UNCHANGED <<clock, settingsStore, prayerTimesStore, scheduledStore,
                 notificationCheckInterval, timers, due, timerSeq, displayed,
                 emitted, everNotified, schedNow,
                 createdNow>>
  /\ missed' = missed \cup
       {<<scheduledStore[p].id, scheduledStore[p].time>> : p \in
          {q \in DOMAIN scheduledStore :
             /\ ~scheduledStore[q].notified
             /\ scheduledStore[q].time - clock < -WINDOW_MS}}
  /\ UNCHANGED cacheVars

\* showPrayerNotification: const prayerTimes = await getPrayerTimes();
\* const locationName = prayerTimes?.location || "your area";
ScanGetTimes(k) ==
  /\ tasks[k].pc = "c_getTimes"
  /\ LET prayerTimes == getPrayerTimes
         location == IF prayerTimes = Undefined THEN ""
                     ELSE IF "location" \in DOMAIN prayerTimes
                     THEN prayerTimes.location ELSE ""
     IN  tasks' = [tasks EXCEPT
           ![k].loc = IF location = "" THEN "your area" ELSE location,
           ![k].pc = "c_show"]
  /\ UNCHANGED <<clock, settingsStore, prayerTimesStore, scheduledStore,
                 notificationCheckInterval, timers, due, timerSeq, displayed,
                 emitted, everNotified, schedNow,
                 createdNow>>
  /\ UNCHANGED missed
  /\ UNCHANGED cacheVars

\* showPrayerNotification: await self.registration.showNotification(title,
\* options) and the messages to the open pages; back in the scan,
\* notification.notified = true.
ScanShow(k) ==
  /\ tasks[k].pc = "c_show"
  /\ LET t == tasks[k]
         notification == t.list[t.idx]
     IN  /\ displayed' =
              dbPut(displayed, [id |-> notification.prayer,
                                time |-> notification.timeStr,
                                location |-> t.loc])
         /\ emitted' = Emit(notification.prayer, notification.time)
         /\ tasks' = [tasks EXCEPT ![k].list[t.idx].notified = TRUE,
                                   ![k].loc = "",
                                   ![k].pc = "c_put"]
  /\ UNCHANGED <<clock, settingsStore, prayerTimesStore, scheduledStore,
                 notificationCheckInterval, timers, due, timerSeq,
                 everNotified, schedNow,
                 createdNow>>
  /\ UNCHANGED missed
  /\ UNCHANGED cacheVars

\* await dbPut("scheduledNotifications", notification); and the loop up to
\* the next record it shows.
ScanPut(k) ==
  /\ tasks[k].pc = "c_put"
  /\ LET t == tasks[k]
         notification == t.list[t.idx]
     IN  /\ scheduledStore' = dbPut(scheduledStore, notification)
         /\ everNotified' = everNotified \cup {<<notification.id, notification.time>>}
         /\ tasks' = [tasks EXCEPT ![k] =
              ScanAdvance(t, NextToFire(t.list, t.now, t.idx + 1))]
  /\ UNCHANGED <<clock, settingsStore, prayerTimesStore,
                 notificationCheckInterval, timers, due, timerSeq, displayed,
                 emitted, schedNow,
                 createdNow>>
  /\ UNCHANGED missed
  /\ UNCHANGED cacheVars

\* ------------------------------------------------------------------------
\* Entry points of the scheduler: message, sync, periodicsync, timer, activate
\* ------------------------------------------------------------------------
NewScan == [IdleTask EXCEPT !.kind = "scan", !.pc = "c_getSettings"]
NewSched == [IdleTask EXCEPT !.kind = "sched", !.pc = "s_getSettings"]

StartScan ==
  /\ \E k \in TaskIds : Idle(k)
  /\ tasks' = [tasks EXCEPT ![FreeSlot] = NewScan]

StartSched ==
  /\ \E k \in TaskIds : Idle(k)
  /\ tasks' = [tasks EXCEPT ![FreeSlot] = NewSched]

\* case "CHECK_NOTIFICATIONS": await checkAndShowNotifications();
MsgCheckNotifications ==
  /\ StartScan
  /\ UNCHANGED <<clock, settingsStore, prayerTimesStore, scheduledStore,
                 notificationCheckInterval, timers, due, timerSeq, displayed,
                 emitted, everNotified, schedNow,
                 createdNow>>
  /\ UNCHANGED missed
  /\ UNCHANGED cacheVars

\* sync, tag "check-prayer-notifications".
SyncCheck ==
  /\ StartScan
  /\ UNCHANGED <<clock, settingsStore, prayerTimesStore, scheduledStore,
                 notificationCheckInterval, timers, due, timerSeq, displayed,
                 emitted, everNotified, schedNow,
                 createdNow>>
  /\ UNCHANGED missed
  /\ UNCHANGED cacheVars

\* periodicsync, tag "prayer-notification-check".
PeriodicSyncCheck ==
  /\ StartScan
  /\ UNCHANGED <<clock, settingsStore, prayerTimesStore, scheduledStore,
                 notificationCheckInterval, timers, due, timerSeq, displayed,
                 emitted, everNotified, schedNow,
                 createdNow>>
  /\ UNCHANGED missed
  /\ UNCHANGED cacheVars

\* The setInterval callback of an interval that is due.
TimerFire ==
  /\ \E timer \in due : due' = due \ {timer}
  /\ StartScan
  /\ UNCHANGED <<clock, settingsStore, prayerTimesStore, scheduledStore,
                 notificationCheckInterval, timers, timerSeq, displayed,
                 emitted, everNotified, schedNow,
                 createdNow>>
  /\ UNCHANGED missed
  /\ UNCHANGED cacheVars

\* case "SCHEDULE_NOTIFICATIONS": await scheduleNotifications();
MsgScheduleNotifications ==
  /\ StartSched
  /\ UNCHANGED <<clock, settingsStore, prayerTimesStore, scheduledStore,
                 notificationCheckInterval, timers, due, timerSeq, displayed,
                 emitted, everNotified, schedNow,
                 createdNow>>
  /\ UNCHANGED missed
  /\ UNCHANGED cacheVars

\* sync, tag "schedule-notifications".
SyncSchedule ==
  /\ StartSched
  /\ UNCHANGED <<clock, settingsStore, prayerTimesStore, scheduledStore,
                 notificationCheckInterval, timers, due, timerSeq, displayed,
                 emitted, everNotified, schedNow,
                 createdNow>>
  /\ UNCHANGED missed
  /\ UNCHANGED cacheVars

\* case "UPDATE_NOTIFICATION_SETTINGS": the record { id: "notifications",
\* ...data } is built; the put is the task's first step.
MsgUpdateNotificationSettings(data) ==
  /\ \E k \in TaskIds : Idle(k)
  /\ tasks' = [tasks EXCEPT ![FreeSlot] =
       [IdleTask EXCEPT !.kind = "sched", !.pc = "m_putSettings",
                        !.data = data @@ [id |-> "notifications"]]]
  /\ UNCHANGED <<clock, settingsStore, prayerTimesStore, scheduledStore,
                 notificationCheckInterval, timers, due, timerSeq, displayed,
                 emitted, everNotified, schedNow,
                 createdNow>>
  /\ UNCHANGED missed
  /\ UNCHANGED cacheVars

\* case "UPDATE_PRAYER_TIMES": the record { id: "today", ...data,
\* updatedAt: Date.now() } is built; the put is the task's first step.
MsgUpdatePrayerTimes(data) ==
  /\ \E k \in TaskIds : Idle(k)
  /\ tasks' = [tasks EXCEPT ![FreeSlot] =
       [IdleTask EXCEPT !.kind = "sched", !.pc = "m_putTimes",
                        !.data = [updatedAt |-> clock] @@ data @@ [id |-> "today"]]]
  /\ UNCHANGED <<clock, settingsStore, prayerTimesStore, scheduledStore,
                 notificationCheckInterval, timers, due, timerSeq, displayed,
                 emitted, everNotified, schedNow,
                 createdNow>>
  /\ UNCHANGED missed
  /\ UNCHANGED cacheVars

\* await dbPut("settings", {...}); then scheduleNotifications() is called.
PutSettings(k) ==
  /\ tasks[k].pc = "m_putSettings"
  /\ settingsStore' = dbPut(settingsStore, tasks[k].data)
  /\ tasks' = [tasks EXCEPT ![k].pc = "s_getSettings"]
  /\ UNCHANGED <<clock, prayerTimesStore, scheduledStore,
                 notificationCheckInterval, timers, due, timerSeq, displayed,
                 emitted, everNotified, schedNow,
                 createdNow>>
  /\ UNCHANGED missed
  /\ UNCHANGED cacheVars

\* await dbPut("prayerTimes", {...}); then scheduleNotifications() is called.
PutTimes(k) ==
  /\ tasks[k].pc = "m_putTimes"
  /\ prayerTimesStore' = dbPut(prayerTimesStore, tasks[k].data)
  /\ tasks' = [tasks EXCEPT ![k].pc = "s_getSettings"]
  /\ UNCHANGED <<clock, settingsStore, scheduledStore,
                 notificationCheckInterval, timers, due, timerSeq, displayed,
                 emitted, everNotified, schedNow,
                 createdNow>>
  /\ UNCHANGED missed
  /\ UNCHANGED cacheVars

\* The invocation's promise settles; its locals are gone.
Return(k) ==
  /\ tasks[k].pc = "done"
  /\ tasks' = [tasks EXCEPT ![k] = IdleTask]
  /\ UNCHANGED <<clock, settingsStore, prayerTimesStore, scheduledStore,
                 notificationCheckInterval, timers, due, timerSeq, displayed,
                 emitted, everNotified, schedNow,
                 createdNow>>
  /\ UNCHANGED missed
  /\ UNCHANGED cacheVars

\* ------------------------------------------------------------------------
\* Failures of the local store
\* ------------------------------------------------------------------------
\* The steps of an invocation that call dbGet, dbGetAll, dbPut or dbClear.
DbSteps ==
  {"m_putSettings", "m_putTimes", "s_getSettings", "s_getTimes", "s_clear",
   "s_put", "c_getSettings", "c_getAll", "c_getTimes", "c_put", "t_getTimes"}

\* The invocation after a helper whose `await openDatabase()` rejected: the
\* helper's catch returns null (dbGet), [] (dbGetAll) or undefined (dbPut,
\* dbClear), the store is not touched and the caller goes on.
OpenFailed(t, clk) ==
  CASE t.pc \in {"m_putSettings", "m_putTimes"} ->
         [t EXCEPT !.pc = "s_getSettings"]
    [] t.pc = "s_getSettings" ->
         [t EXCEPT !.settings = DefaultSettings, !.pc = "s_getTimes"]
    [] t.pc = "s_getTimes" ->
         [t EXCEPT !.pt = Undefined, !.pc = "done"]
    [] t.pc = "s_clear" ->
         SchedAdvance([t EXCEPT !.now = clk], clk,
                      NextSchedulable(t.settings, t.pt, clk, clk, 1))
    [] t.pc = "s_put" ->
         SchedAdvance(t, clk,
                      NextSchedulable(t.settings, t.pt, t.now, clk, t.idx + 1))
    [] t.pc = "c_getSettings" ->
         [t EXCEPT !.settings = DefaultSettings, !.pc = "done"]
    [] t.pc = "c_getAll" ->
         [t EXCEPT !.list = <<>>, !.now = clk, !.pc = "done", !.idx = 0]
    [] t.pc = "c_getTimes" ->
         [t EXCEPT !.loc = "your area", !.pc = "c_show"]
    [] t.pc = "c_put" ->
         ScanAdvance(t, NextToFire(t.list, t.now, t.idx + 1))
    [] t.pc = "t_getTimes" ->
         [t EXCEPT !.loc = "your area",
                   !.pc = IF t.cur.prayer \in PRAYER_MESSAGES
                          THEN "t_show" ELSE "rejected"]

\* A helper call during which indexedDB.open fails: openDatabase rejects
\* inside the helper's try block.
OpenFails(k) ==
  /\ tasks[k].pc \in DbSteps
  /\ tasks' = [tasks EXCEPT ![k] = OpenFailed(tasks[k], clock)]
  /\ UNCHANGED <<clock, settingsStore, prayerTimesStore, scheduledStore,
                 notificationCheckInterval, timers, due, timerSeq, displayed,
                 emitted, everNotified, schedNow,
                 createdNow>>
  /\ UNCHANGED missed
  /\ UNCHANGED cacheVars

\* A helper call whose transaction or request fails: the helper has returned
\* the promise of the request without awaiting it, so its catch does not
\* see the rejection; the awaiting caller has no try block and the
\* invocation ends with the error.
RequestFails(k) ==
  /\ tasks[k].pc \in DbSteps
  /\ tasks' = [tasks EXCEPT ![k].pc = "rejected"]
  /\ UNCHANGED <<clock, settingsStore, prayerTimesStore, scheduledStore,
                 notificationCheckInterval, timers, due, timerSeq, displayed,
                 emitted, everNotified, schedNow,
                 createdNow>>
  /\ UNCHANGED missed
  /\ UNCHANGED cacheVars

\* The invocation's promise is rejected; its locals are gone.  The
\* rejection of the scheduleNotifications() an activate event awaits is
\* ActivateRejects.
Rejected(k) ==
  /\ tasks[k].pc = "rejected"
  /\ ~tasks[k].inActivate
  /\ tasks' = [tasks EXCEPT ![k] = IdleTask]
  /\ UNCHANGED <<clock, settingsStore, prayerTimesStore, scheduledStore,
                 notificationCheckInterval, timers, due, timerSeq, displayed,
                 emitted, everNotified, schedNow,
                 createdNow>>
  /\ UNCHANGED missed
  /\ UNCHANGED cacheVars

\* showPrayerNotification when self.registration.showNotification rejects:
\* the catch logs the error, nothing is displayed, and back in the scan
\* notification.notified = true is set all the same.
ShowFails(k) ==
  /\ tasks[k].pc = "c_show"
  /\ tasks' = [tasks EXCEPT ![k].list[tasks[k].idx].notified = TRUE,
                            ![k].loc = "",
                            ![k].pc = "c_put"]
  /\ UNCHANGED <<clock, settingsStore, prayerTimesStore, scheduledStore,
                 notificationCheckInterval, timers, due, timerSeq, displayed,
                 emitted, everNotified, schedNow,
                 createdNow>>
  /\ UNCHANGED missed
  /\ UNCHANGED cacheVars

\* ------------------------------------------------------------------------
\* TEST_NOTIFICATION, push, notificationclick, notificationclose, SKIP_WAITING
\* ------------------------------------------------------------------------
T_TEST == <<"T", "e", "s", "t", " ", "T", "i", "m", "e">>

\* data.prayer of TEST_NOTIFICATION: a prayer, a name without a template,
\* the empty string, a name every object inherits, or nothing.
TestPayloads ==
  {[prayer |-> "fajr"], [prayer |-> "general"], [prayer |-> ""],
   [prayer |-> "constructor"], [silent |-> TRUE]}

\* The property names PRAYER_MESSAGES, an object literal, inherits from
\* Object.prototype.  PRAYER_MESSAGES[name] is a function or an object for
\* each of them: truthy, and without a title.
InheritedKeys ==
  {"constructor", "hasOwnProperty", "isPrototypeOf", "propertyIsEnumerable",
   "toLocaleString", "toString", "valueOf", "__proto__", "__defineGetter__",
   "__defineSetter__", "__lookupGetter__", "__lookupSetter__"}

\* case "TEST_NOTIFICATION": const prayer = data?.prayer || "fajr" (a
\* missing and an empty prayer give "fajr"); await
\* showPrayerNotification(prayer, "Test Time"), which returns at once when
\* PRAYER_MESSAGES[prayer] is undefined: the name is neither a template nor
\* inherited.
MsgTestNotification(data) ==
  /\ \E k \in TaskIds : Idle(k)
  /\ LET prayer == IF "prayer" \in DOMAIN data /\ data.prayer # ""
                   THEN data.prayer ELSE "fajr"
     IN  tasks' = [tasks EXCEPT ![FreeSlot] =
           [IdleTask EXCEPT
              !.kind = "test",
              !.pc = IF prayer \in PRAYER_MESSAGES \cup InheritedKeys
                     THEN "t_getTimes" ELSE "done",
              !.cur = [prayer |-> prayer, timeStr |-> T_TEST]]]
  /\ UNCHANGED <<clock, settingsStore, prayerTimesStore, scheduledStore,
                 notificationCheckInterval, timers, due, timerSeq, displayed,
                 emitted, everNotified, schedNow,
                 createdNow>>
  /\ UNCHANGED missed
  /\ UNCHANGED cacheVars

\* showPrayerNotification of the test: const prayerTimes = await
\* getPrayerTimes(); const locationName = prayerTimes?.location || "your area";
\* then message.title.replace(...), which throws a TypeError when the
\* message is an inherited property: the invocation ends with the error.
TestGetTimes(k) ==
  /\ tasks[k].pc = "t_getTimes"
  /\ LET prayerTimes == getPrayerTimes
         location == IF prayerTimes = Undefined THEN ""
                     ELSE IF "location" \in DOMAIN prayerTimes
                     THEN prayerTimes.location ELSE ""
     IN  tasks' = [tasks EXCEPT
           ![k].loc = IF location = "" THEN "your area" ELSE location,
           ![k].pc = IF tasks[k].cur.prayer \in PRAYER_MESSAGES
                     THEN "t_show" ELSE "rejected"]
  /\ UNCHANGED <<clock, settingsStore, prayerTimesStore, scheduledStore,
                 notificationCheckInterval, timers, due, timerSeq, displayed,
                 emitted, everNotified, schedNow,
                 createdNow>>
  /\ UNCHANGED missed
  /\ UNCHANGED cacheVars

\* showPrayerNotification of the test: await
\* self.registration.showNotification(title, options) and the messages to
\* the open pages; when showNotification rejects (shown = FALSE) the catch
\* logs the error and nothing is displayed.  No record of the collection is
\* involved.
TestShow(k, shown) ==
  /\ tasks[k].pc = "t_show"
  /\ displayed' = IF shown
                  THEN dbPut(displayed, [id |-> tasks[k].cur.prayer,
                                         time |-> tasks[k].cur.timeStr,
                                         location |-> tasks[k].loc])
                  ELSE displayed
  /\ tasks' = [tasks EXCEPT ![k].loc = "", ![k].pc = "done"]
  /\ UNCHANGED <<clock, settingsStore, prayerTimesStore, scheduledStore,
                 notificationCheckInterval, timers, due, timerSeq,
                 emitted, everNotified, schedNow,
                 createdNow>>
  /\ UNCHANGED missed
  /\ UNCHANGED cacheVars

\* The payloads of a push message: with a prayer, and without one (the
\* default "general" stays).
PushPayloads ==
  {[title |-> "Fajr", body |-> "now", prayer |-> "fajr"],
   [body |-> "Prayer time reminder"]}

\* push listener of v2.1.0: registration.showNotification(data.title,
\* options) with tag prayer-<data.prayer>; the notification's data holds
\* the prayer and a URL, no time and no location.  When showNotification
\* rejects (shown = FALSE) nothing is displayed.
Push(data, shown) ==
  /\ displayed' =
       IF shown
       THEN dbPut(displayed,
              [id |-> IF "prayer" \in DOMAIN data THEN data.prayer ELSE "general"])
       ELSE displayed
  /\ UNCHANGED <<clock, settingsStore, prayerTimesStore, scheduledStore, tasks,
                 notificationCheckInterval, timers, due, timerSeq,
                 emitted, everNotified, schedNow,
                 createdNow>>
  /\ UNCHANGED missed
  /\ UNCHANGED cacheVars

\* What a push event of v2.0.0 carries: a payload with a prayer, a payload
\* with a body only, no data.
ReminderPayloads ==
  {[title |-> "Fajr", body |-> "now", prayer |-> "fajr"],
   [body |-> "Prayer time reminder"], Undefined}

\* push listener of v2.0.0: with event.data,
\* registration.showNotification(...) under the fixed tag prayer-reminder,
\* which replaces the notification displayed under that tag; without
\* event.data nothing happens.  When showNotification rejects (shown =
\* FALSE) nothing is displayed.
PushReminder(data, shown) ==
  /\ displayed' = IF data # Undefined /\ shown
                  THEN dbPut(displayed, [id |-> "reminder"])
                  ELSE displayed
  /\ UNCHANGED <<clock, settingsStore, prayerTimesStore, scheduledStore, tasks,
                 notificationCheckInterval, timers, due, timerSeq,
                 emitted, everNotified, schedNow,
                 createdNow>>
  /\ UNCHANGED missed
  /\ UNCHANGED cacheVars

\* event.action of a click: a button of the notification or its body.
NotificationActions == {"view", "dismiss", ""}

\* notificationclick listener: event.notification.close(); unless the
\* action is "dismiss" a window of the app is focused or opened.
NotificationClick(tag, action) ==
  /\ tag \in DOMAIN displayed
  /\ displayed' = [p \in DOMAIN displayed \ {tag} |-> displayed[p]]
  /\ UNCHANGED <<clock, settingsStore, prayerTimesStore, scheduledStore, tasks,
                 notificationCheckInterval, timers, due, timerSeq,
                 emitted, everNotified, schedNow,
                 createdNow>>
  /\ UNCHANGED missed
  /\ UNCHANGED cacheVars

\* The notification is closed by the user or the platform; the
\* notificationclose listener logs the tag.
NotificationClose(tag) ==
  /\ tag \in DOMAIN displayed
  /\ displayed' = [p \in DOMAIN displayed \ {tag} |-> displayed[p]]
  /\ UNCHANGED <<clock, settingsStore, prayerTimesStore, scheduledStore, tasks,
                 notificationCheckInterval, timers, due, timerSeq,
                 emitted, everNotified, schedNow,
                 createdNow>>
  /\ UNCHANGED missed
  /\ UNCHANGED cacheVars

\* case "SKIP_WAITING": self.skipWaiting().  The install listener has
\* called skipWaiting() already, so the worker does not wait and the call
\* changes nothing.
MsgSkipWaiting ==
  /\ UNCHANGED schedVars
  /\ UNCHANGED cacheVars

\* The host stops the idle worker process and starts it again to deliver an
\* event: the script is evaluated anew (let notificationCheckInterval =
\* null), the intervals of the stopped process are gone, and no activate
\* event is dispatched to a worker that is already activated.
Restart ==
  /\ AllIdle
  /\ notificationCheckInterval # NullTimer
  /\ notificationCheckInterval' = NullTimer
  /\ timers' = {}
  /\ due' = {}
  /\ UNCHANGED <<clock, settingsStore, prayerTimesStore, scheduledStore, tasks,
                 timerSeq, displayed, emitted, everNotified, schedNow,
                 createdNow>>
  /\ UNCHANGED missed
  /\ UNCHANGED cacheVars

\* 30 s pass: every interval that is set comes due.  The callbacks of the
\* previous period have been run.
Tick ==
  /\ clock < MaxClockTicks * CHECK_PERIOD_MS
  /\ due = {}
  /\ clock' = clock + CHECK_PERIOD_MS
  /\ due' = timers
  /\ UNCHANGED <<settingsStore, prayerTimesStore, scheduledStore, tasks,
                 notificationCheckInterval, timers, timerSeq, displayed,
                 emitted, everNotified, schedNow,
                 createdNow>>
  /\ UNCHANGED missed
  /\ UNCHANGED cacheVars

\* One step of an invocation in flight.
TaskStep ==
  \E k \in TaskIds :
    \/ PutSettings(k)
    \/ PutTimes(k)
    \/ SchedGetSettings(k)
    \/ SchedGetTimes(k)
    \/ SchedClear(k)
    \/ SchedPut(k)
    \/ ScanGetSettings(k)
    \/ ScanGetAll(k)
    \/ ScanGetTimes(k)
    \/ ScanShow(k)
    \/ ScanPut(k)
    \/ Return(k)

SchedInit ==
  /\ clock = 0
  /\ settingsStore = <<>>
  /\ prayerTimesStore = <<>>
  /\ scheduledStore = <<>>
  /\ tasks = [k \in TaskIds |-> IdleTask]
  /\ notificationCheckInterval = NullTimer
  /\ timers = {}
  /\ due = {}
  /\ timerSeq = 0
  /\ displayed = <<>>
  /\ emitted = <<>>
  /\ everNotified = {}
  /\ schedNow = 0
  /\ createdNow = <<>>
  /\ missed = {}

\* ------------------------------------------------------------------------
\* Cache router and cache generation manager
\* ------------------------------------------------------------------------
\* The characters of every URL and asset string of the model.
Chars ==
  "/index.html" :>
    <<"/", "i", "n", "d", "e", "x", ".", "h", "t", "m", "l">> @@
  "/favicon/android-chrome-192x192.png" :>
    <<"/", "f", "a", "v", "i", "c", "o", "n", "/", "a", "n", "d", "r", "o",
      "i", "d", "-", "c", "h", "r", "o", "m", "e", "-", "1", "9", "2", "x",
      "1", "9", "2", ".", "p", "n", "g">> @@
  "/favicon/android-chrome-512x512.png" :>
    <<"/", "f", "a", "v", "i", "c", "o", "n", "/", "a", "n", "d", "r", "o",
      "i", "d", "-", "c", "h", "r", "o", "m", "e", "-", "5", "1", "2", "x",
      "5", "1", "2", ".", "p", "n", "g">> @@
  "/favicon/apple-touch-icon.png" :>
    <<"/", "f", "a", "v", "i", "c", "o", "n", "/", "a", "p", "p", "l", "e",
      "-", "t", "o", "u", "c", "h", "-", "i", "c", "o", "n", ".", "p", "n",
      "g">> @@
  "/favicon/favicon-32x32.png" :>
    <<"/", "f", "a", "v", "i", "c", "o", "n", "/", "f", "a", "v", "i", "c",
      "o", "n", "-", "3", "2", "x", "3", "2", ".", "p", "n", "g">> @@
  "/favicon/favicon-16x16.png" :>
    <<"/", "f", "a", "v", "i", "c", "o", "n", "/", "f", "a", "v", "i", "c",
      "o", "n", "-", "1", "6", "x", "1", "6", ".", "p", "n", "g">> @@
  "/favicon/favicon.ico" :>
    <<"/", "f", "a", "v", "i", "c", "o", "n", "/", "f", "a", "v", "i", "c",
      "o", "n", ".", "i", "c", "o">> @@
  "/favicon/site.webmanifest" :>
    <<"/", "f", "a", "v", "i", "c", "o", "n", "/", "s", "i", "t", "e", ".",
      "w", "e", "b", "m", "a", "n", "i", "f", "e", "s", "t">> @@
  "https://fonts.googleapis.com/css2?family=Inter:wght@300;400;500;600;700;800&display=swap" :>
    <<"h", "t", "t", "p", "s", ":", "/", "/", "f", "o", "n", "t", "s", ".",
      "g", "o", "o", "g", "l", "e", "a", "p", "i", "s", ".", "c", "o", "m",
      "/", "c", "s", "s", "2", "?", "f", "a", "m", "i", "l", "y", "=", "I",
      "n", "t", "e", "r", ":", "w", "g", "h", "t", "@", "3", "0", "0", ";",
      "4", "0", "0", ";", "5", "0", "0", ";", "6", "0", "0", ";", "7", "0",
      "0", ";", "8", "0", "0", "&", "d", "i", "s", "p", "l", "a", "y", "=",
      "s", "w", "a", "p">> @@
  "https://cdnjs.cloudflare.com/ajax/libs/font-awesome/6.4.0/css/all.min.css" :>
    <<"h", "t", "t", "p", "s", ":", "/", "/", "c", "d", "n", "j", "s", ".",
      "c", "l", "o", "u", "d", "f", "l", "a", "r", "e", ".", "c", "o", "m",
      "/", "a", "j", "a", "x", "/", "l", "i", "b", "s", "/", "f", "o", "n",
      "t", "-", "a", "w", "e", "s", "o", "m", "e", "/", "6", ".", "4", ".",
      "0", "/", "c", "s", "s", "/", "a", "l", "l", ".", "m", "i", "n", ".",
      "c", "s", "s">> @@
  "https://azantimes.in/index.html" :>
    <<"h", "t", "t", "p", "s", ":", "/", "/", "a", "z", "a", "n", "t", "i",
      "m", "e", "s", ".", "i", "n", "/", "i", "n", "d", "e", "x", ".", "h",
      "t", "m", "l">> @@
  "https://azantimes.in/favicon/android-chrome-192x192.png" :>
    <<"h", "t", "t", "p", "s", ":", "/", "/", "a", "z", "a", "n", "t", "i",
      "m", "e", "s", ".", "i", "n", "/", "f", "a", "v", "i", "c", "o", "n",
      "/", "a", "n", "d", "r", "o", "i", "d", "-", "c", "h", "r", "o", "m",
      "e", "-", "1", "9", "2", "x", "1", "9", "2", ".", "p", "n", "g">> @@
  "https://azantimes.in/favicon/android-chrome-512x512.png" :>
    <<"h", "t", "t", "p", "s", ":", "/", "/", "a", "z", "a", "n", "t", "i",
      "m", "e", "s", ".", "i", "n", "/", "f", "a", "v", "i", "c", "o", "n",
      "/", "a", "n", "d", "r", "o", "i", "d", "-", "c", "h", "r", "o", "m",
      "e", "-", "5", "1", "2", "x", "5", "1", "2", ".", "p", "n", "g">> @@
  "https://azantimes.in/favicon/apple-touch-icon.png" :>
    <<"h", "t", "t", "p", "s", ":", "/", "/", "a", "z", "a", "n", "t", "i",
      "m", "e", "s", ".", "i", "n", "/", "f", "a", "v", "i", "c", "o", "n",
      "/", "a", "p", "p", "l", "e", "-", "t", "o", "u", "c", "h", "-", "i",
      "c", "o", "n", ".", "p", "n", "g">> @@
  "https://azantimes.in/favicon/favicon-32x32.png" :>
    <<"h", "t", "t", "p", "s", ":", "/", "/", "a", "z", "a", "n", "t", "i",
      "m", "e", "s", ".", "i", "n", "/", "f", "a", "v", "i", "c", "o", "n",
      "/", "f", "a", "v", "i", "c", "o", "n", "-", "3", "2", "x", "3", "2",
      ".", "p", "n", "g">> @@
  "https://azantimes.in/favicon/favicon-16x16.png" :>
    <<"h", "t", "t", "p", "s", ":", "/", "/", "a", "z", "a", "n", "t", "i",
      "m", "e", "s", ".", "i", "n", "/", "f", "a", "v", "i", "c", "o", "n",
      "/", "f", "a", "v", "i", "c", "o", "n", "-", "1", "6", "x", "1", "6",
      ".", "p", "n", "g">> @@
  "https://azantimes.in/favicon/favicon.ico" :>
    <<"h", "t", "t", "p", "s", ":", "/", "/", "a", "z", "a", "n", "t", "i",
      "m", "e", "s", ".", "i", "n", "/", "f", "a", "v", "i", "c", "o", "n",
      "/", "f", "a", "v", "i", "c", "o", "n", ".", "i", "c", "o">> @@
  "https://azantimes.in/favicon/site.webmanifest" :>
    <<"h", "t", "t", "p", "s", ":", "/", "/", "a", "z", "a", "n", "t", "i",
      "m", "e", "s", ".", "i", "n", "/", "f", "a", "v", "i", "c", "o", "n",
      "/", "s", "i", "t", "e", ".", "w", "e", "b", "m", "a", "n", "i", "f",
      "e", "s", "t">> @@
  "https://api.azantimes.in/v1/timesheets/index.json" :>
    <<"h", "t", "t", "p", "s", ":", "/", "/", "a", "p", "i", ".", "a", "z",
      "a", "n", "t", "i", "m", "e", "s", ".", "i", "n", "/", "v", "1", "/",
      "t", "i", "m", "e", "s", "h", "e", "e", "t", "s", "/", "i", "n", "d",
      "e", "x", ".", "j", "s", "o", "n">> @@
  "https://azantimes.in/app.js" :>
    <<"h", "t", "t", "p", "s", ":", "/", "/", "a", "z", "a", "n", "t", "i",
      "m", "e", "s", ".", "i", "n", "/", "a", "p", "p", ".", "j", "s">>

\* CORE_ASSETS, in the order of the array.
CORE_ASSETS ==
  <<"/index.html",
    "/favicon/android-chrome-192x192.png",
    "/favicon/android-chrome-512x512.png",
    "/favicon/apple-touch-icon.png",
    "/favicon/favicon-32x32.png",
    "/favicon/favicon-16x16.png",
    "/favicon/favicon.ico",
    "/favicon/site.webmanifest",
    "https://fonts.googleapis.com/css2?family=Inter:wght@300;400;500;600;700;800&display=swap",
    "https://cdnjs.cloudflare.com/ajax/libs/font-awesome/6.4.0/css/all.min.css">>

\* API_ENDPOINTS.
API_ENDPOINTS == <<"https://api.azantimes.in/v1/timesheets/index.json">>

\* new Request(url): the URL an entry of CORE_ASSETS resolves to against the
\* worker's origin.
AssetRequest ==
  "/index.html" :>
    "https://azantimes.in/index.html" @@
  "/favicon/android-chrome-192x192.png" :>
    "https://azantimes.in/favicon/android-chrome-192x192.png" @@
  "/favicon/android-chrome-512x512.png" :>
    "https://azantimes.in/favicon/android-chrome-512x512.png" @@
  "/favicon/apple-touch-icon.png" :>
    "https://azantimes.in/favicon/apple-touch-icon.png" @@
  "/favicon/favicon-32x32.png" :>
    "https://azantimes.in/favicon/favicon-32x32.png" @@
  "/favicon/favicon-16x16.png" :>
    "https://azantimes.in/favicon/favicon-16x16.png" @@
  "/favicon/favicon.ico" :>
    "https://azantimes.in/favicon/favicon.ico" @@
  "/favicon/site.webmanifest" :>
    "https://azantimes.in/favicon/site.webmanifest" @@
  "https://fonts.googleapis.com/css2?family=Inter:wght@300;400;500;600;700;800&display=swap" :>
    "https://fonts.googleapis.com/css2?family=Inter:wght@300;400;500;600;700;800&display=swap" @@
  "https://cdnjs.cloudflare.com/ajax/libs/font-awesome/6.4.0/css/all.min.css" :>
    "https://cdnjs.cloudflare.com/ajax/libs/font-awesome/6.4.0/css/all.min.css"

\* The GET requests the pages make.
Requests ==
  {"https://azantimes.in/index.html",
   "https://api.azantimes.in/v1/timesheets/index.json",
   "https://azantimes.in/app.js"}

\* Network payload versions a URL can answer with.
Bodies == {"v1", "v2"}

\* The generations of the worker: src/dashboard/sw.js and its successor.
OldGen == "v2.0.0"
NewGen == "v2.1.0"
Gens == {OldGen, NewGen}

CACHE_NAME(g) ==
  IF g = NewGen THEN "prayer-times-kerala-v2.1.0" ELSE "prayer-times-kerala-v2.0.0"

API_CACHE(g) ==
  IF g = NewGen THEN "prayer-times-api-v2.1.0" ELSE "prayer-times-api-v2.0.0"

OFFLINE_CACHE(g) ==
  IF g = NewGen THEN "prayer-times-offline-v2.1.0" ELSE "prayer-times-offline-v2.0.0"

HandlerIds == 1..MaxHandlers

IdleHandler ==
  [kind |-> "idle", pc |-> "idle", gen |-> "", request |-> "",
   net |-> Undefined, netCalls |-> 0, cache |-> "", detached |-> FALSE,
   stored |-> Undefined, result |-> Undefined, cacheNames |-> <<>>,
   started |-> 0, hadCopy |-> FALSE, reply |-> Undefined, failing |-> {},
   port |-> TRUE, core |-> "", api |-> "", db |-> "", pending |-> {}]

HandlersIdle == \A k \in HandlerIds : handlers[k].kind = "idle"

FreeHandler ==
  IF \E k \in HandlerIds : handlers[k].kind = "idle"
  THEN CHOOSE k \in HandlerIds :
         /\ handlers[k].kind = "idle"
         /\ \A j \in HandlerIds : handlers[j].kind = "idle" => k <= j
  ELSE 0

\* ------------------------------------------------------------------------
\* Responses
\* ------------------------------------------------------------------------
\* fetch() rejected.
NetworkError == [error |-> "TypeError"]

OkResponse(body) == [status |-> 200, body |-> body, headers |-> <<>>]

NotFoundResponse == [status |-> 404, body |-> "not found", headers |-> <<>>]

\* What fetch(request) can settle with.
NetOutcomes == {OkResponse(b) : b \in Bodies} \cup {NotFoundResponse, NetworkError}

\* response.ok taken to be true of every response the network returns.
IsOk_AnyStatus(response) == response # NetworkError

\* response.ok
IsOk(response) ==
  /\ response # NetworkError
  /\ response.status >= 200
  /\ response.status <= 299

\* headers.set(name, value)
HeadersSet(headers, name, value) ==
  [h \in DOMAIN headers \cup {name} |-> IF h = name THEN value ELSE headers[h]]

createOfflineResponse ==
  [status |-> 503, body |-> "offline",
   headers |-> HeadersSet(HeadersSet(<<>>, "Content-Type", "application/json"),
                          "sw-offline", "true")]

\* ------------------------------------------------------------------------
\* Cache Storage
\* ------------------------------------------------------------------------
\* caches.keys()
cachesKeys(storage) == [i \in 1..Len(storage) |-> storage[i].name]

cachesHas(storage, name) == \E i \in 1..Len(storage) : storage[i].name = name

\* caches.open(name): the partition is created when it does not exist.
cachesOpen(storage, name) ==
  IF cachesHas(storage, name)
  THEN storage
  ELSE Append(storage, [name |-> name, entries |-> <<>>])

RECURSIVE cachesDelete(_, _)
\* caches.delete(name) for each of the names.
cachesDelete(storage, names) ==
  IF storage = <<>> THEN <<>>
  ELSE IF Head(storage).name \in names
       THEN cachesDelete(Tail(storage), names)
       ELSE <<Head(storage)>> \o cachesDelete(Tail(storage), names)

\* cache.put(request, response) on the partition of that name.
cachePut(storage, name, request, response) ==
  [i \in 1..Len(storage) |->
     IF storage[i].name = name
     THEN [storage[i] EXCEPT !.entries =
             [r \in DOMAIN @ \cup {request} |->
                IF r = request THEN response ELSE @[r]]]
     ELSE storage[i]]

RECURSIVE cachePutAll(_, _, _, _)
\* The entries of a batch, put one after the other.
cachePutAll(storage, name, requests, response) ==
  IF requests = <<>> THEN storage
  ELSE cachePutAll(cachePut(storage, name, Head(requests), response),
                   name, Tail(requests), response)

\* caches.match(request): the entry of the first partition, in creation
\* order, that holds the request.
cachesMatch(storage, request) ==
  IF \E i \in 1..Len(storage) : request \in DOMAIN storage[i].entries
  THEN LET first == CHOOSE i \in 1..Len(storage) :
                      /\ request \in DOMAIN storage[i].entries
                      /\ \A j \in 1..(i - 1) : request \notin DOMAIN storage[j].entries
       IN storage[first].entries[request]
  ELSE Undefined

\* ------------------------------------------------------------------------
\* fetch listener: the class of a request
\* ------------------------------------------------------------------------
\* haystack.includes(needle)
Includes(haystack, needle) ==
  \E i \in 1..(Len(haystack) - Len(needle) + 1) :
    SubSeq(haystack, i, i + Len(needle) - 1) = needle

\* haystack.startsWith(needle)
StartsWith(haystack, needle) ==
  /\ Len(haystack) >= Len(needle)
  /\ SubSeq(haystack, 1, Len(needle)) = needle

\* The least position from `from` on that holds one of the characters, or
\* one past the end.
RECURSIVE IndexOfAny(_, _, _)
IndexOfAny(s, cs, from) ==
  IF from > Len(s) THEN Len(s) + 1
  ELSE IF s[from] \in cs THEN from
  ELSE IndexOfAny(s, cs, from + 1)

\* new URL(href).pathname of an absolute http(s) URL.
Pathname(href) ==
  LET colon == IndexOfAny(href, {":"}, 1)
      slash == IndexOfAny(href, {"/", "?", "#"}, colon + 3)
      stop == IndexOfAny(href, {"?", "#"}, slash)
  IN IF slash > Len(href) \/ href[slash] # "/"
     THEN <<"/">>
     ELSE SubSeq(href, slash, stop - 1)

API_PREFIX == <<"/", "v", "1", "/">>

\* The handler the fetch listener answers a GET request with.
HandlerFor(request) ==
  LET href == Chars[request]
      pathname == Pathname(href)
  IN IF StartsWith(pathname, API_PREFIX) THEN "api"
     ELSE IF \E i \in 1..Len(CORE_ASSETS) :
               \/ Includes(pathname, Chars[CORE_ASSETS[i]])
               \/ Includes(href, Chars[CORE_ASSETS[i]])
          THEN "core"
          ELSE "network"

\* The generation installed last.
Latest == IF worker[NewGen] # "none" THEN NewGen ELSE OldGen

\* The worker that controls the pages: activation claims them.
Controls(g) == worker[g] \in {"activating", "activated"}

\* Partitions that lose a deleted name leave the handles on them detached.
Detach(hs, names) ==
  [k \in HandlerIds |->
     IF hs[k].cache \in names THEN [hs[k] EXCEPT !.detached = TRUE] ELSE hs[k]]

\* A fetch event for a GET request reaches the controlling worker.
FetchEvent(g, request) ==
  /\ Controls(g)
  /\ FreeHandler # 0
  /\ LET kind == HandlerFor(request)
     IN handlers' = [handlers EXCEPT ![FreeHandler] =
          [IdleHandler EXCEPT
             !.kind = kind,
             !.pc = IF kind = "api" THEN "a_fetch"
                    ELSE IF kind = "core" THEN "c_match" ELSE "n_fetch",
             !.gen = g,
             !.request = request,
             !.started = clock,
             !.hadCopy = \E i \in 1..Len(cacheStorage) :
                            request \in DOMAIN cacheStorage[i].entries]]
  /\ touched' = TRUE
  /\ UNCHANGED <<cacheStorage, worker, actRuns>>
  /\ UNCHANGED schedVars

\* ------------------------------------------------------------------------
\* handleApiRequest
\* ------------------------------------------------------------------------
\* await fetch(request)
ApiFetch(k) ==
  /\ handlers[k].pc = "a_fetch"
  /\ \E out \in NetOutcomes :
       handlers' = [handlers EXCEPT
         ![k].net = out,
         ![k].netCalls = @ + 1,
         ![k].pc = IF IsOk(out) THEN "a_open" ELSE "a_match"]
  /\ UNCHANGED cacheStorage
  /\ UNCHANGED <<worker, actRuns, touched>>
  /\ UNCHANGED schedVars

modifiedResponse_NoStamp(networkResponse, now) == networkResponse

\* The copy handleApiRequest stores.
modifiedResponse(networkResponse, now) ==
  [status |-> networkResponse.status, body |-> networkResponse.body,
   headers |-> HeadersSet(networkResponse.headers, "sw-cached-at", now)]

\* await caches.open(API_CACHE); the put is started and the network
\* response is returned.
ApiOpen(k) ==
  /\ handlers[k].pc = "a_open"
  /\ cacheStorage' = cachesOpen(cacheStorage, API_CACHE(handlers[k].gen))
  /\ handlers' = [handlers EXCEPT
       ![k].cache = API_CACHE(handlers[k].gen),
       ![k].stored = modifiedResponse(handlers[k].net, clock),
       ![k].result = handlers[k].net,
       ![k].pc = "put"]
  /\ UNCHANGED <<worker, actRuns, touched>>
  /\ UNCHANGED schedVars

\* The response handleApiRequest builds from a stored copy.
fromCacheResponse(cachedResponse) ==
  [status |-> cachedResponse.status, body |-> cachedResponse.body,
   headers |-> HeadersSet(cachedResponse.headers, "sw-from-cache", "true")]

\* await caches.match(request) after the network did not answer ok.
ApiMatch(k) ==
  /\ handlers[k].pc = "a_match"
  /\ LET cachedResponse == cachesMatch(cacheStorage, handlers[k].request)
     IN handlers' = [handlers EXCEPT
          ![k].result = IF cachedResponse # Undefined
                        THEN fromCacheResponse(cachedResponse)
                        ELSE createOfflineResponse,
          ![k].pc = "done"]
  /\ UNCHANGED cacheStorage
  /\ UNCHANGED <<worker, actRuns, touched>>
  /\ UNCHANGED schedVars

\* The put a handler started lands in the partition it opened, unless the
\* partition was deleted in between.
CachePut(k) ==
  /\ handlers[k].pc = "put"
  /\ cacheStorage' =
       IF ~handlers[k].detached /\ cachesHas(cacheStorage, handlers[k].cache)
       THEN cachePut(cacheStorage, handlers[k].cache, handlers[k].request,
                     handlers[k].stored)
       ELSE cacheStorage
  /\ handlers' = [handlers EXCEPT ![k].pc = "done"]
  /\ UNCHANGED <<worker, actRuns, touched>>
  /\ UNCHANGED schedVars

\* ------------------------------------------------------------------------
\* handleCoreAssetRequest
\* ------------------------------------------------------------------------
\* await caches.match(request)
CoreMatch(k) ==
  /\ handlers[k].pc = "c_match"
  /\ LET cachedResponse == cachesMatch(cacheStorage, handlers[k].request)
     IN handlers' = [handlers EXCEPT
          ![k].result = cachedResponse,
          ![k].pc = IF cachedResponse # Undefined THEN "done" ELSE "c_fetch"]
  /\ UNCHANGED cacheStorage
  /\ UNCHANGED <<worker, actRuns, touched>>
  /\ UNCHANGED schedVars

\* await fetch(request)
CoreFetch(k) ==
  /\ handlers[k].pc = "c_fetch"
  /\ \E out \in NetOutcomes :
       handlers' = [handlers EXCEPT
         ![k].net = out,
         ![k].netCalls = @ + 1,
         ![k].result = IF IsOk(out) THEN Undefined ELSE createOfflineResponse,
         ![k].pc = IF IsOk(out) THEN "c_open" ELSE "done"]
  /\ UNCHANGED cacheStorage
  /\ UNCHANGED <<worker, actRuns, touched>>
  /\ UNCHANGED schedVars

\* await caches.open(CACHE_NAME); the put is started and the network
\* response is returned.
CoreOpen(k) ==
  /\ handlers[k].pc = "c_open"
  /\ cacheStorage' = cachesOpen(cacheStorage, CACHE_NAME(handlers[k].gen))
  /\ handlers' = [handlers EXCEPT
       ![k].cache = CACHE_NAME(handlers[k].gen),
       ![k].stored = handlers[k].net,
       ![k].result = handlers[k].net,
       ![k].pc = "put"]
  /\ UNCHANGED <<worker, actRuns, touched>>
  /\ UNCHANGED schedVars

\* ------------------------------------------------------------------------
\* handleNetworkRequest
\* ------------------------------------------------------------------------
\* await fetch(request)
NetFetch(k) ==
  /\ handlers[k].pc = "n_fetch"
  /\ \E out \in NetOutcomes :
       handlers' = [handlers EXCEPT
         ![k].net = out,
         ![k].netCalls = @ + 1,
         ![k].pc = IF IsOk(out) THEN "n_open" ELSE "n_match"]
  /\ UNCHANGED cacheStorage
  /\ UNCHANGED <<worker, actRuns, touched>>
  /\ UNCHANGED schedVars

\* NetOpen with the core-assets partition in place of OFFLINE_CACHE.
NetOpen_CorePartition(k) ==
  /\ handlers[k].pc = "n_open"
  /\ cacheStorage' = cachesOpen(cacheStorage, CACHE_NAME(handlers[k].gen))
  /\ handlers' = [handlers EXCEPT
       ![k].cache = CACHE_NAME(handlers[k].gen),
       ![k].stored = handlers[k].net,
       ![k].result = handlers[k].net,
       ![k].pc = "put"]
  /\ UNCHANGED <<worker, actRuns, touched>>
  /\ UNCHANGED schedVars

\* await caches.open(OFFLINE_CACHE); the put is started and the network
\* response is returned.
NetOpen(k) ==
  /\ handlers[k].pc = "n_open"
  /\ cacheStorage' = cachesOpen(cacheStorage, OFFLINE_CACHE(handlers[k].gen))
  /\ handlers' = [handlers EXCEPT
       ![k].cache = OFFLINE_CACHE(handlers[k].gen),
       ![k].stored = handlers[k].net,
       ![k].result = handlers[k].net,
       ![k].pc = "put"]
  /\ UNCHANGED <<worker, actRuns, touched>>
  /\ UNCHANGED schedVars

NetMatch_NoFallback(k) ==
  /\ handlers[k].pc = "n_match"
  /\ handlers' = [handlers EXCEPT
       ![k].result = createOfflineResponse,
       ![k].pc = "done"]
  /\ UNCHANGED cacheStorage
  /\ UNCHANGED <<worker, actRuns, touched>>
  /\ UNCHANGED schedVars

\* await caches.match(request) after the network did not answer ok.
NetMatch(k) ==
  /\ handlers[k].pc = "n_match"
  /\ LET cachedResponse == cachesMatch(cacheStorage, handlers[k].request)
     IN handlers' = [handlers EXCEPT
          ![k].result = IF cachedResponse # Undefined
                        THEN cachedResponse
                        ELSE createOfflineResponse,
          ![k].pc = "done"]
  /\ UNCHANGED cacheStorage
  /\ UNCHANGED <<worker, actRuns, touched>>
  /\ UNCHANGED schedVars

\* ------------------------------------------------------------------------
\* install listener
\* ------------------------------------------------------------------------
\* CORE_ASSETS.map(url => new Request(url))
CoreRequests == [i \in 1..Len(CORE_ASSETS) |-> AssetRequest[CORE_ASSETS[i]]]

\* The install event of a generation: the first one, or the successor of
\* the one that is active.  The members of the listener's Promise.all are
\* started: the core-assets chain, the API chain and, in v2.1.0,
\* openDatabase(); skipWaiting() is called.
Install(g) ==
  /\ worker[g] = "none"
  /\ \/ g = OldGen /\ worker[NewGen] = "none"
     \/ g = NewGen /\ worker[OldGen] \in {"none", "activated"}
  /\ FreeHandler # 0
  /\ worker' = [worker EXCEPT ![g] = "installing"]
  /\ handlers' = [handlers EXCEPT ![FreeHandler] =
       [IdleHandler EXCEPT !.kind = "install", !.pc = "i_run", !.gen = g,
                           !.core = "open", !.api = "open",
                           !.db = IF g = NewGen THEN "open" ELSE "done"]]
  /\ actRuns' = 0
  /\ touched' = FALSE
  /\ UNCHANGED cacheStorage
  /\ UNCHANGED schedVars

\* caches.open(CACHE_NAME) of the core-assets chain.
InstallOpenCore(k) ==
  /\ handlers[k].kind = "install"
  /\ handlers[k].core = "open"
  /\ cacheStorage' = cachesOpen(cacheStorage, CACHE_NAME(handlers[k].gen))
  /\ handlers' = [handlers EXCEPT ![k].core = "addAll"]
  /\ UNCHANGED <<worker, actRuns, touched>>
  /\ UNCHANGED schedVars

\* The core assets whose fetch fails during an install: none, the first,
\* two of the others, all.
FailingFetches ==
  {{}, {1}, {2, Len(CORE_ASSETS)}, 1..Len(CORE_ASSETS)}

\* cache.addAll(requests) with the fetches of `failing` failing and the
\* others answering ok with body b: the batch is stored only when every
\* response is ok; the rejection is caught.  The handler remembers which
\* fetches failed.
InstallAddAllWith(k, failing, b) ==
  /\ handlers[k].kind = "install"
  /\ handlers[k].core = "addAll"
  /\ cacheStorage' =
       IF failing = {} /\ cachesHas(cacheStorage, CACHE_NAME(handlers[k].gen))
       THEN cachePutAll(cacheStorage, CACHE_NAME(handlers[k].gen),
                        CoreRequests, OkResponse(b))
       ELSE cacheStorage
  /\ handlers' = [handlers EXCEPT ![k].core = "done", ![k].failing = failing]
  /\ UNCHANGED <<worker, actRuns, touched>>
  /\ UNCHANGED schedVars

InstallAddAll(k) ==
  \E failing \in FailingFetches, b \in Bodies : InstallAddAllWith(k, failing, b)

\* caches.open(API_CACHE) of the API chain.
InstallOpenApi(k) ==
  /\ handlers[k].kind = "install"
  /\ handlers[k].api = "open"
  /\ cacheStorage' = cachesOpen(cacheStorage, API_CACHE(handlers[k].gen))
  /\ handlers' = [handlers EXCEPT ![k].api = "fetch"]
  /\ UNCHANGED <<worker, actRuns, touched>>
  /\ UNCHANGED schedVars

\* fetch(url) of the API endpoint answers `out`: an ok response goes on to
\* cache.put, any other answer and a failure of the fetch end the chain.
InstallApiFetchWith(k, out) ==
  /\ handlers[k].kind = "install"
  /\ handlers[k].api = "fetch"
  /\ handlers' = [handlers EXCEPT
       ![k].net = IF IsOk(out) THEN out ELSE @,
       ![k].api = IF IsOk(out) THEN "put" ELSE "done"]
  /\ UNCHANGED cacheStorage
  /\ UNCHANGED <<worker, actRuns, touched>>
  /\ UNCHANGED schedVars

InstallApiFetch(k) == \E out \in NetOutcomes : InstallApiFetchWith(k, out)

\* cache.put(url, response) of the API chain.
InstallApiPut(k) ==
  /\ handlers[k].kind = "install"
  /\ handlers[k].api = "put"
  /\ cacheStorage' =
       IF cachesHas(cacheStorage, API_CACHE(handlers[k].gen))
       THEN cachePut(cacheStorage, API_CACHE(handlers[k].gen),
                     API_ENDPOINTS[1], handlers[k].net)
       ELSE cacheStorage
  /\ handlers' = [handlers EXCEPT ![k].api = "done", ![k].net = Undefined]
  /\ UNCHANGED <<worker, actRuns, touched>>
  /\ UNCHANGED schedVars

\* openDatabase() of the install listener of v2.1.0 succeeds.
InstallOpenDatabase(k) ==
  /\ handlers[k].kind = "install"
  /\ handlers[k].db = "open"
  /\ handlers' = [handlers EXCEPT ![k].db = "done"]
  /\ UNCHANGED cacheStorage
  /\ UNCHANGED <<worker, actRuns, touched>>
  /\ UNCHANGED schedVars

\* Every member of the Promise.all has ended: the install event settles.
\* The worker is installed unless a member rejected.
InstallSettle(k) ==
  /\ handlers[k].kind = "install"
  /\ handlers[k].core = "done"
  /\ handlers[k].api \in {"done", "rejected"}
  /\ handlers[k].db \in {"done", "rejected"}
  /\ worker' = [worker EXCEPT ![handlers[k].gen] =
       IF @ = "installing" THEN "installed" ELSE @]
  /\ handlers' = [handlers EXCEPT ![k] = IdleHandler]
  /\ UNCHANGED <<cacheStorage, actRuns, touched>>
  /\ UNCHANGED schedVars

\* One step of an install in flight.
InstallStep(k) ==
  \/ InstallOpenCore(k)
  \/ InstallAddAll(k)
  \/ InstallOpenApi(k)
  \/ InstallApiFetch(k)
  \/ InstallApiPut(k)
  \/ InstallOpenDatabase(k)
  \/ InstallSettle(k)

\* ------------------------------------------------------------------------
\* activate listeners
\* ------------------------------------------------------------------------
IsStale_None(g, cacheName) == FALSE

\* The names the activate listener deletes.
IsStale(g, cacheName) ==
  /\ cacheName # CACHE_NAME(g)
  /\ cacheName # API_CACHE(g)
  /\ cacheName # OFFLINE_CACHE(g)

\* startNotificationChecker without clearInterval of the handle it holds.
startNotificationChecker_NoClear ==
  /\ timerSeq' = timerSeq + 1
  /\ timers' = timers \cup {timerSeq + 1}
  /\ due' = due
  /\ notificationCheckInterval' = timerSeq + 1

\* startNotificationChecker: the old interval is cleared when the handle is
\* set, a new one is set.
startNotificationChecker ==
  /\ timerSeq' = timerSeq + 1
  /\ timers' = (IF notificationCheckInterval # NullTimer
                THEN timers \ {notificationCheckInterval} ELSE timers)
               \cup {timerSeq + 1}
  /\ due' = (IF notificationCheckInterval # NullTimer
             THEN due \ {notificationCheckInterval} ELSE due)
  /\ notificationCheckInterval' = timerSeq + 1

\* The scheduler's share of the activate event of v2.1.0: the first
\* listener calls scheduleNotifications() inside its Promise.all, the
\* second startNotificationChecker(), which calls
\* checkAndShowNotifications().  Both invocations are in flight when the
\* event has been dispatched.
ActivateScheduler ==
  /\ timerSeq < MaxTimers
  /\ IdleCount >= 2
  /\ LET a == FreeSlot
         b == CHOOSE k \in TaskIds :
                /\ Idle(k) /\ k # a
                /\ \A j \in TaskIds : (Idle(j) /\ j # a) => k <= j
     IN  tasks' = [tasks EXCEPT ![a] = [NewSched EXCEPT !.inActivate = TRUE],
                                ![b] = NewScan]
  /\ startNotificationChecker
  /\ UNCHANGED <<clock, settingsStore, prayerTimesStore, scheduledStore,
                 displayed, emitted, everNotified, schedNow,
                 createdNow>>
  /\ UNCHANGED missed

\* The activate event: after install (skipWaiting), or once more on the
\* worker that is the only one; the worker it replaces is terminated.  The
\* listener calls caches.keys(), self.clients.claim() and, in v2.1.0,
\* scheduleNotifications(); the second listener of v2.1.0 starts the timer.
Activate(g) ==
  /\ \/ worker[g] = "installed"
     \/ worker[g] = "activated" /\ \A h \in Gens \ {g} : worker[h] \in {"none", "redundant"}
  /\ HandlersIdle
  /\ worker' = [h \in Gens |->
       IF h = g THEN "activating"
       ELSE IF worker[h] = "activated" THEN "redundant" ELSE worker[h]]
  /\ handlers' = [handlers EXCEPT ![FreeHandler] =
       [IdleHandler EXCEPT !.kind = "activate", !.pc = "v_keys", !.gen = g]]
  /\ UNCHANGED <<cacheStorage, actRuns, touched>>
  /\ IF g = NewGen THEN ActivateScheduler ELSE UNCHANGED schedVars

\* caches.keys() answers; caches.delete is called for every stale name.
ActivateKeys(k) ==
  /\ handlers[k].pc = "v_keys"
  /\ handlers' = [handlers EXCEPT
       ![k].cacheNames = cachesKeys(cacheStorage),
       ![k].pending = {cacheStorage[i].name : i \in
                         {j \in 1..Len(cacheStorage) :
                            IsStale(handlers[k].gen, cacheStorage[j].name)}},
       ![k].pc = "v_delete"]
  /\ UNCHANGED cacheStorage
  /\ UNCHANGED <<worker, actRuns, touched>>
  /\ UNCHANGED schedVars

\* One caches.delete of the activate listener completes.
ActivateDelete(k) ==
  /\ handlers[k].pc = "v_delete"
  /\ \E name \in handlers[k].pending :
       /\ cacheStorage' = cachesDelete(cacheStorage, {name})
       /\ handlers' = [Detach(handlers, {name}) EXCEPT ![k].pending = @ \ {name}]
  /\ UNCHANGED <<worker, actRuns, touched>>
  /\ UNCHANGED schedVars

\* Every delete has completed and the scheduleNotifications() of the event
\* has ended: the activate event settles and the worker is activated,
\* unless a rejection has settled the event before.
ActivateSettle(k) ==
  /\ handlers[k].pc = "v_delete"
  /\ handlers[k].pending = {}
  /\ \A t \in TaskIds : ~tasks[t].inActivate
  /\ LET g == handlers[k].gen
         over == handlers[k].db = "rejected"
     IN /\ handlers' = [handlers EXCEPT ![k] = IdleHandler]
        /\ worker' = IF over THEN worker ELSE [worker EXCEPT ![g] = "activated"]
        /\ actRuns' = IF g = Latest /\ ~over
                      THEN Min(actRuns + 1, MaxActivations) ELSE actRuns
  /\ UNCHANGED <<cacheStorage, touched>>
  /\ UNCHANGED schedVars

\* The scheduleNotifications() of the activate event rejects: Promise.all
\* rejects at its first rejection, so the promise given to waitUntil is
\* settled and the event is over whatever caches.keys() and the deletes
\* have come to.  A failed activate event does not keep the worker from
\* becoming active.  The cache branch goes on to its end.
ActivateRejects(k) ==
  /\ handlers[k].kind = "activate"
  /\ handlers[k].db # "rejected"
  /\ \E t \in TaskIds :
       /\ tasks[t].inActivate
       /\ tasks[t].pc = "rejected"
       /\ tasks' = [tasks EXCEPT ![t] = IdleTask]
  /\ LET g == handlers[k].gen
     IN /\ handlers' = [handlers EXCEPT ![k].db = "rejected"]
        /\ worker' = [worker EXCEPT ![g] = "activated"]
        /\ actRuns' = IF g = Latest THEN Min(actRuns + 1, MaxActivations) ELSE actRuns
  /\ UNCHANGED <<cacheStorage, touched>>
  /\ UNCHANGED <<clock, settingsStore, prayerTimesStore, scheduledStore,
                 notificationCheckInterval, timers, due, timerSeq, displayed,
                 emitted, everNotified, schedNow,
                 createdNow>>
  /\ UNCHANGED missed

\* A step of the cache branch of an activation in flight other than a
\* delete: the list of names, the settling of the event.
ActivateStep(k) ==
  \/ ActivateKeys(k)
  \/ ActivateSettle(k)

\* ------------------------------------------------------------------------
\* message listener: CLEAR_CACHE and FORCE_UPDATE
\* ------------------------------------------------------------------------
MsgClearCache(g) ==
  /\ Controls(g)
  /\ FreeHandler # 0
  /\ handlers' = [handlers EXCEPT ![FreeHandler] =
       [IdleHandler EXCEPT !.kind = "clear", !.pc = "m_keys", !.gen = g]]
  /\ touched' = TRUE
  /\ UNCHANGED <<cacheStorage, worker, actRuns>>
  /\ UNCHANGED schedVars

MsgForceUpdate(g) ==
  /\ Controls(g)
  /\ FreeHandler # 0
  /\ handlers' = [handlers EXCEPT ![FreeHandler] =
       [IdleHandler EXCEPT !.kind = "force", !.pc = "m_keys", !.gen = g]]
  /\ touched' = TRUE
  /\ UNCHANGED <<cacheStorage, worker, actRuns>>
  /\ UNCHANGED schedVars

\* clearAllCaches: await caches.keys(); caches.delete is called for every
\* name of the list.  With an empty list the Promise.all is settled.
ClearKeys(k) ==
  /\ handlers[k].pc = "m_keys"
  /\ handlers' = [handlers EXCEPT
       ![k].cacheNames = cachesKeys(cacheStorage),
       ![k].pending = {cacheStorage[i].name : i \in 1..Len(cacheStorage)},
       ![k].pc = IF cacheStorage # <<>> THEN "m_delete"
                 ELSE IF handlers[k].kind = "force" THEN "m_navigate"
                 ELSE "m_reply"]
  /\ UNCHANGED cacheStorage
  /\ UNCHANGED <<worker, actRuns, touched>>
  /\ UNCHANGED schedVars

\* clearAllCaches: one caches.delete completes; after the last one the
\* Promise.all is settled and the caller goes on.
ClearDelete(k) ==
  /\ handlers[k].pc = "m_delete"
  /\ \E name \in handlers[k].pending :
       /\ cacheStorage' = cachesDelete(cacheStorage, {name})
       /\ handlers' = [Detach(handlers, {name}) EXCEPT
            ![k].pending = @ \ {name},
            ![k].pc = IF handlers[k].pending # {name} THEN "m_delete"
                      ELSE IF handlers[k].kind = "force" THEN "m_navigate"
                      ELSE "m_reply"]
  /\ UNCHANGED <<worker, actRuns, touched>>
  /\ UNCHANGED schedVars

\* forceUpdate: the clients are listed and navigated to their own URL.
ForceNavigate(k) ==
  /\ handlers[k].pc = "m_navigate"
  /\ handlers' = [handlers EXCEPT ![k].pc = "m_reply"]
  /\ UNCHANGED cacheStorage
  /\ UNCHANGED <<worker, actRuns, touched>>
  /\ UNCHANGED schedVars

\* case "GET_VERSION": the reply is the handler's only step.  The message
\* carries a reply port or none.
MsgGetVersion(g, port) ==
  /\ Controls(g)
  /\ FreeHandler # 0
  /\ handlers' = [handlers EXCEPT ![FreeHandler] =
       [IdleHandler EXCEPT !.kind = "version", !.pc = "m_reply", !.gen = g,
                           !.port = port]]
  /\ touched' = TRUE
  /\ UNCHANGED <<cacheStorage, worker, actRuns>>
  /\ UNCHANGED schedVars

\* case "CLEAR_CACHE" of a message without a reply port.
MsgClearCacheNoPort(g) ==
  /\ Controls(g)
  /\ FreeHandler # 0
  /\ handlers' = [handlers EXCEPT ![FreeHandler] =
       [IdleHandler EXCEPT !.kind = "clear", !.pc = "m_keys", !.gen = g,
                           !.port = FALSE]]
  /\ touched' = TRUE
  /\ UNCHANGED <<cacheStorage, worker, actRuns>>
  /\ UNCHANGED schedVars

\* case "FORCE_UPDATE" of a message without a reply port.
MsgForceUpdateNoPort(g) ==
  /\ Controls(g)
  /\ FreeHandler # 0
  /\ handlers' = [handlers EXCEPT ![FreeHandler] =
       [IdleHandler EXCEPT !.kind = "force", !.pc = "m_keys", !.gen = g,
                           !.port = FALSE]]
  /\ touched' = TRUE
  /\ UNCHANGED <<cacheStorage, worker, actRuns>>
  /\ UNCHANGED schedVars

\* event.ports[0].postMessage({ version: CACHE_NAME }) and
\* event.ports[0].postMessage({ success: true }), the port being there.
Reply(k) ==
  /\ handlers[k].pc = "m_reply"
  /\ handlers[k].port
  /\ handlers' = [handlers EXCEPT
       ![k].reply = IF handlers[k].kind = "version"
                    THEN [version |-> CACHE_NAME(handlers[k].gen)]
                    ELSE [success |-> TRUE],
       ![k].pc = "done"]
  /\ UNCHANGED cacheStorage
  /\ UNCHANGED <<worker, actRuns, touched>>
  /\ UNCHANGED schedVars

\* The handler has settled.
HandlerReturn(k) ==
  /\ handlers[k].pc = "done"
  /\ handlers' = [handlers EXCEPT ![k] = IdleHandler]
  /\ UNCHANGED cacheStorage
  /\ UNCHANGED <<worker, actRuns, touched>>
  /\ UNCHANGED schedVars

\* One step of a handler in flight.
HandlerStep ==
  \E k \in HandlerIds :
    \/ ApiFetch(k)
    \/ ApiOpen(k)
    \/ ApiMatch(k)
    \/ CoreMatch(k)
    \/ CoreFetch(k)
    \/ CoreOpen(k)
    \/ NetFetch(k)
    \/ NetOpen(k)
    \/ NetMatch(k)
    \/ CachePut(k)
    \/ InstallStep(k)
    \/ ActivateStep(k)
    \/ ClearKeys(k)
    \/ ClearDelete(k)
    \/ ForceNavigate(k)
    \/ Reply(k)
    \/ HandlerReturn(k)

CacheInit ==
  /\ cacheStorage = <<>>
  /\ worker = [g \in Gens |-> "none"]
  /\ handlers = [k \in HandlerIds |-> IdleHandler]
  /\ actRuns = 0
  /\ touched = FALSE

\* The steps of the two invocations the activate event of v2.1.0 starts,
\* and of the scans the timer starts, while no settings are stored: both
\* return after their reads.
ActivationTaskStep ==
  \E k \in TaskIds :
    \/ SchedGetSettings(k)
    \/ SchedGetTimes(k)
    \/ ScanGetSettings(k)
    \/ Return(k)

\* No handler of the cache part and no invocation of the scheduler is in
\* flight.
Settled == AllIdle /\ HandlersIdle

\* No worker has been installed on the device.
Fresh == \A g \in Gens : worker[g] = "none"

\* Every handler in flight has returned its response to the page: what is
\* left of it is the cache.put it started without awaiting it.
Returned == \A k \in HandlerIds : handlers[k].pc \in {"idle", "put"}

\* Either generation on a device that held no worker, installed and
\* activated once, all within the same 30 s.  An event is dispatched when
\* the handlers of the earlier events have returned; the put a fetch handler
\* started lands at any time after, among the steps of the handlers of the
\* later events.  v2.0.0 shows the reminder of a push message, which a click
\* closes.
CacheNext ==
  \/ Settled /\ Fresh /\ \E g \in Gens : Install(g)
  \/ AllIdle /\ \E g \in Gens : worker[g] = "installed" /\ Activate(g)
  \/ AllIdle /\ Returned /\ worker[OldGen] = "activated"
       /\ \E data \in ReminderPayloads, shown \in BOOLEAN : PushReminder(data, shown)
  \/ AllIdle /\ Returned
       /\ \E tag \in DOMAIN displayed, action \in NotificationActions :
            NotificationClick(tag, action)
  \/ AllIdle /\ Returned /\ \E g \in Gens, request \in Requests : FetchEvent(g, request)
  \/ AllIdle /\ Returned /\ \E g \in Gens : MsgClearCache(g)
  \/ AllIdle /\ Returned /\ \E g \in Gens : MsgForceUpdate(g)
  \/ HandlerStep
  \/ ActivationTaskStep

\* The upgrade: v2.0.0 is installed and activated and handles fetch events;
\* v2.1.0 is installed over it, activated, once or twice, and handles fetch
\* events and the cache commands.  One event at a time, all within the same
\* 30 s.
CacheNextUpgrade ==
  \/ Settled /\ \E g \in Gens : Install(g)
  \/ AllIdle /\ worker[OldGen] = "installed" /\ Activate(OldGen)
  \/ AllIdle /\ Activate(NewGen)
  \/ Settled /\ \E g \in Gens, request \in Requests : FetchEvent(g, request)
  \/ Settled /\ MsgClearCache(NewGen)
  \/ Settled /\ MsgForceUpdate(NewGen)
  \/ HandlerStep
  \/ \E k \in HandlerIds : ActivateDelete(k)
  \/ ActivationTaskStep

\* ------------------------------------------------------------------------
\* Failures of the cache storage and messages without a reply port
\* ------------------------------------------------------------------------
\* await caches.open(...) rejects, or building the copy throws: the handler
\* is inside its try block, the catch logs, and the handler goes on after
\* the try statement: caches.match in handleApiRequest and
\* handleNetworkRequest, createOfflineResponse() in handleCoreAssetRequest.
CacheOpenFails(k) ==
  /\ handlers[k].pc \in {"a_open", "c_open", "n_open"}
  /\ handlers' = [handlers EXCEPT
       ![k].result = IF handlers[k].pc = "c_open"
                     THEN createOfflineResponse ELSE @,
       ![k].pc = IF handlers[k].pc = "a_open" THEN "a_match"
                 ELSE IF handlers[k].pc = "n_open" THEN "n_match" ELSE "done"]
  /\ UNCHANGED cacheStorage
  /\ UNCHANGED <<worker, actRuns, touched>>
  /\ UNCHANGED schedVars

\* The put a handler started is rejected: nothing is stored; the handler
\* has returned the network response without awaiting the put.
CachePutFails(k) ==
  /\ handlers[k].pc = "put"
  /\ handlers' = [handlers EXCEPT ![k].pc = "done"]
  /\ UNCHANGED cacheStorage
  /\ UNCHANGED <<worker, actRuns, touched>>
  /\ UNCHANGED schedVars

\* event.ports[0].postMessage(...) of a message without a port:
\* event.ports[0] is undefined and the property access throws a TypeError.
ReplyThrows(k) ==
  /\ handlers[k].pc = "m_reply"
  /\ ~handlers[k].port
  /\ handlers' = [handlers EXCEPT ![k].pc = "m_error"]
  /\ UNCHANGED cacheStorage
  /\ UNCHANGED <<worker, actRuns, touched>>
  /\ UNCHANGED schedVars

\* The handler has ended with the error.
HandlerThrew(k) ==
  /\ handlers[k].pc = "m_error"
  /\ handlers' = [handlers EXCEPT ![k] = IdleHandler]
  /\ UNCHANGED cacheStorage
  /\ UNCHANGED <<worker, actRuns, touched>>
  /\ UNCHANGED schedVars

\* cache.put(url, response) of the install's API chain rejects: the catch
\* of the chain logs the error, nothing is stored and the chain ends.
InstallApiPutFails(k) ==
  /\ handlers[k].kind = "install"
  /\ handlers[k].api = "put"
  /\ handlers' = [handlers EXCEPT ![k].api = "done", ![k].net = Undefined]
  /\ UNCHANGED cacheStorage
  /\ UNCHANGED <<worker, actRuns, touched>>
  /\ UNCHANGED schedVars

\* caches.keys() of the activate listener rejects: the Promise.all of the
\* event rejects, the event is over and the worker is activated; no name
\* is deleted.  The scheduleNotifications() of the event goes on.
ActivateKeysFails(k) ==
  /\ handlers[k].pc = "v_keys"
  /\ LET g == handlers[k].gen
         over == handlers[k].db = "rejected"
     IN /\ handlers' = [handlers EXCEPT ![k] = IdleHandler]
        /\ worker' = IF over THEN worker ELSE [worker EXCEPT ![g] = "activated"]
        /\ actRuns' = IF g = Latest /\ ~over
                      THEN Min(actRuns + 1, MaxActivations) ELSE actRuns
  /\ tasks' = [t \in TaskIds |-> [tasks[t] EXCEPT !.inActivate = FALSE]]
  /\ UNCHANGED <<cacheStorage, touched>>
  /\ UNCHANGED <<clock, settingsStore, prayerTimesStore, scheduledStore,
                 notificationCheckInterval, timers, due, timerSeq, displayed,
                 emitted, everNotified, schedNow,
                 createdNow>>
  /\ UNCHANGED missed

\* caches.open(CACHE_NAME) of the install rejects: the chain's catch logs
\* the error and the chain ends; no partition is created.
InstallOpenCoreFails(k) ==
  /\ handlers[k].kind = "install"
  /\ handlers[k].core = "open"
  /\ handlers' = [handlers EXCEPT ![k].core = "done"]
  /\ UNCHANGED cacheStorage
  /\ UNCHANGED <<worker, actRuns, touched>>
  /\ UNCHANGED schedVars

\* caches.open(API_CACHE) of the install rejects: the chain has no catch,
\* the promise of the install event rejects and the worker is discarded.
\* The other members of the Promise.all go on.
InstallOpenApiFails(k) ==
  /\ handlers[k].kind = "install"
  /\ handlers[k].api = "open"
  /\ handlers' = [handlers EXCEPT ![k].api = "rejected"]
  /\ worker' = [worker EXCEPT ![handlers[k].gen] = "redundant"]
  /\ UNCHANGED <<cacheStorage, actRuns, touched>>
  /\ UNCHANGED schedVars

\* openDatabase() of the install rejects (indexedDB.open fails): the
\* promise of the install event rejects and the worker is discarded.
InstallOpenDatabaseFails(k) ==
  /\ handlers[k].kind = "install"
  /\ handlers[k].db = "open"
  /\ handlers' = [handlers EXCEPT ![k].db = "rejected"]
  /\ worker' = [worker EXCEPT ![handlers[k].gen] = "redundant"]
  /\ UNCHANGED <<cacheStorage, actRuns, touched>>
  /\ UNCHANGED schedVars

\* The latest generation with a cache storage that can fail and with
\* messages that carry no reply port, one event at a time.
CacheNextFault ==
  \/ Settled /\ Install(NewGen)
  \/ AllIdle /\ Activate(NewGen)
  \/ Settled /\ \E request \in Requests : FetchEvent(NewGen, request)
  \/ Settled /\ \E port \in BOOLEAN : MsgGetVersion(NewGen, port)
  \/ Settled /\ MsgClearCache(NewGen)
  \/ Settled /\ MsgForceUpdate(NewGen)
  \/ Settled /\ MsgClearCacheNoPort(NewGen)
  \/ Settled /\ MsgForceUpdateNoPort(NewGen)
  \/ HandlerStep
  \/ ActivationTaskStep
  \/ \E k \in HandlerIds : CacheOpenFails(k)
  \/ \E k \in HandlerIds : CachePutFails(k)
  \/ \E k \in HandlerIds : ReplyThrows(k)
  \/ \E k \in HandlerIds : HandlerThrew(k)
  \/ \E k \in HandlerIds : InstallOpenCoreFails(k)
  \/ \E k \in HandlerIds : InstallOpenApiFails(k)
  \/ \E k \in HandlerIds : InstallOpenDatabaseFails(k)
  \/ \E k \in HandlerIds : InstallApiPutFails(k)
  \/ \E k \in HandlerIds : ActivateKeysFails(k)

\* A fetch handler or a command is in flight.
FetchInFlight == \E k \in HandlerIds : handlers[k].kind \in {"api", "core", "network"}
CommandInFlight == \E k \in HandlerIds : handlers[k].kind \in {"clear", "force"}

\* A fetch event and a command of the latest generation that do not wait
\* for one another: a command is dispatched while a fetch handler is in
\* flight, a fetch event while a command is.
CacheNextRace ==
  \/ Settled /\ Install(NewGen)
  \/ AllIdle /\ Activate(NewGen)
  \/ AllIdle /\ ~FetchInFlight /\ \E request \in Requests : FetchEvent(NewGen, request)
  \/ AllIdle /\ ~CommandInFlight /\ MsgClearCache(NewGen)
  \/ AllIdle /\ ~CommandInFlight /\ MsgForceUpdate(NewGen)
  \/ HandlerStep
  \/ ActivationTaskStep

\* ------------------------------------------------------------------------
\* The scheduler's specifications
\* ------------------------------------------------------------------------
\* The worker v2.1.0 has been activated.
Activated == worker[NewGen] = "activated"

\* The worker v2.1.0 is activated and the previous event has been handled
\* to its end.
Ready == Settled /\ Activated

\* The steps of the install and of the cache branch of the activation of
\* v2.1.0 on a device that holds no partition, with a network that answers
\* every fetch with body v1.
StartupStep ==
  \E k \in HandlerIds :
    \/ InstallOpenCore(k)
    \/ InstallAddAllWith(k, {}, "v1")
    \/ InstallOpenApi(k)
    \/ InstallApiFetchWith(k, OkResponse("v1"))
    \/ InstallApiPut(k)
    \/ InstallOpenDatabase(k)
    \/ InstallSettle(k)
    \/ ActivateKeys(k)
    \/ ActivateSettle(k)

\* One step of a test notification in flight.
TestStep ==
  \E k \in TaskIds :
    \/ TestGetTimes(k)
    \/ \E shown \in BOOLEAN : TestShow(k, shown)
    \/ tasks[k].kind = "test" /\ Rejected(k)

\* Every entry point, whenever a slot is free: invocations interleave.
SchedNext ==
  \/ Install(NewGen)
  \/ StartupStep
  \/ Activate(NewGen)
  \/ TimerFire
  \/ MsgCheckNotifications
  \/ SyncCheck
  \/ PeriodicSyncCheck
  \/ MsgScheduleNotifications
  \/ SyncSchedule
  \/ \E data \in SettingsPayloads : MsgUpdateNotificationSettings(data)
  \/ \E data \in PrayerTimesPayloads : MsgUpdatePrayerTimes(data)
  \/ \E data \in TestPayloads : MsgTestNotification(data)
  \/ \E data \in PushPayloads, shown \in BOOLEAN : Push(data, shown)
  \/ \E tag \in DOMAIN displayed, action \in NotificationActions :
       NotificationClick(tag, action)
  \/ \E tag \in DOMAIN displayed : NotificationClose(tag)
  \/ MsgSkipWaiting
  \/ TaskStep
  \/ TestStep
  \/ Tick

\* The same entry points, one event at a time: an event is dispatched when
\* the invocations of the previous one have settled.  The worker is
\* installed and activated, once, before the page's first message.
SchedNextSeq ==
  \/ Install(NewGen)
  \/ StartupStep
  \/ AllIdle /\ settingsStore = <<>> /\ timerSeq = 0 /\ Activate(NewGen)
  \/ Ready /\ TimerFire
  \/ Ready /\ MsgCheckNotifications
  \/ Ready /\ SyncCheck
  \/ Ready /\ PeriodicSyncCheck
  \/ Ready /\ MsgScheduleNotifications
  \/ Ready /\ SyncSchedule
  \/ Ready /\ \E data \in SettingsPayloads : MsgUpdateNotificationSettings(data)
  \/ Ready /\ \E data \in PrayerTimesPayloads : MsgUpdatePrayerTimes(data)
  \/ TaskStep
  \/ Tick

\* The round trip: the worker is installed and activated, any number of
\* times, the page sends its prayer times and then, once, settings that
\* enable notifications; from then on only scans run, one at a time.
SchedNextRoundTrip ==
  \/ Install(NewGen)
  \/ StartupStep
  \/ AllIdle /\ settingsStore = <<>> /\ Activate(NewGen)
  \/ Ready /\ settingsStore = <<>>
       /\ \E data \in PrayerTimesPayloads : MsgUpdatePrayerTimes(data)
  \/ Ready /\ settingsStore = <<>>
       /\ \E data \in SettingsPayloads :
            data.enabled /\ MsgUpdateNotificationSettings(data)
  \/ Ready /\ TimerFire
  \/ Ready /\ MsgCheckNotifications
  \/ Ready /\ SyncCheck
  \/ Ready /\ PeriodicSyncCheck
  \/ TaskStep
  \/ Tick

\* The same round trip with the scan triggers not waiting for one another:
\* a scan starts whenever a slot is free.
SchedNextRace ==
  \/ Install(NewGen)
  \/ StartupStep
  \/ AllIdle /\ settingsStore = <<>> /\ timerSeq = 0 /\ Activate(NewGen)
  \/ Ready /\ settingsStore = <<>>
       /\ \E data \in PrayerTimesPayloads : MsgUpdatePrayerTimes(data)
  \/ Ready /\ settingsStore = <<>>
       /\ \E data \in SettingsPayloads :
            data.enabled /\ MsgUpdateNotificationSettings(data)
  \/ Activated /\ (\A k \in TaskIds : tasks[k].kind # "sched") /\ TimerFire
  \/ Activated /\ (\A k \in TaskIds : tasks[k].kind # "sched") /\ MsgCheckNotifications
  \/ Activated /\ (\A k \in TaskIds : tasks[k].kind # "sched") /\ SyncCheck
  \/ Activated /\ (\A k \in TaskIds : tasks[k].kind # "sched") /\ PeriodicSyncCheck
  \/ TaskStep
  \/ Tick

\* The round trip with a store that can fail at every helper call, one event
\* at a time.  The worker is activated before the page's first message
\* and once more when the first entries have been created, so that the
\* recomputation of an activate event has records to clear and to put.
SchedNextStoreFail ==
  \/ Install(NewGen)
  \/ StartupStep
  \/ AllIdle /\ (settingsStore = <<>> => timerSeq = 0)
       /\ (settingsStore # <<>> => clock = 0 /\ scheduledStore # <<>>)
       /\ Activate(NewGen)
  \/ Ready /\ settingsStore = <<>>
       /\ \E data \in PrayerTimesPayloads : MsgUpdatePrayerTimes(data)
  \/ Ready /\ settingsStore = <<>>
       /\ \E data \in SettingsPayloads :
            data.enabled /\ MsgUpdateNotificationSettings(data)
  \/ Ready /\ TimerFire
  \/ Ready /\ MsgCheckNotifications
  \/ Ready /\ MsgScheduleNotifications
  \/ TaskStep
  \/ \E k \in TaskIds : OpenFails(k)
  \/ \E k \in TaskIds : RequestFails(k)
  \/ \E k \in TaskIds : Rejected(k)
  \/ \E k \in HandlerIds : ActivateRejects(k)
  \/ clock < MaxFailTicks * CHECK_PERIOD_MS /\ Tick

\* Scans, updates and the recomputations they trigger, not waiting for one
\* another: once the worker is activated a message is handled whenever a
\* slot is free, all of them within the same 30 s.  Every settings payload
\* enables notifications, so that every recomputation clears.
SchedNextInterleave ==
  \/ Install(NewGen)
  \/ StartupStep
  \/ timerSeq = 0 /\ Activate(NewGen)
  \/ Activated /\ \E data \in PrayerTimesPayloads : MsgUpdatePrayerTimes(data)
  \/ Activated /\ \E data \in SettingsPayloads :
       data.enabled /\ MsgUpdateNotificationSettings(data)
  \/ Activated /\ MsgCheckNotifications
  \/ TaskStep

\* The round trip with a host that stops and restarts the worker process
\* between events.
SchedNextRestart ==
  \/ Install(NewGen)
  \/ StartupStep
  \/ AllIdle /\ settingsStore = <<>> /\ timerSeq = 0 /\ Activate(NewGen)
  \/ Ready /\ settingsStore = <<>>
       /\ \E data \in PrayerTimesPayloads : MsgUpdatePrayerTimes(data)
  \/ Ready /\ settingsStore = <<>>
       /\ \E data \in SettingsPayloads :
            data.enabled /\ MsgUpdateNotificationSettings(data)
  \/ Ready /\ TimerFire
  \/ Ready /\ MsgCheckNotifications
  \/ Ready /\ SyncCheck
  \/ Ready /\ PeriodicSyncCheck
  \/ Ready /\ Restart
  \/ TaskStep
  \/ Tick

\* Scans and recomputations with a host that stops and restarts the worker
\* process between events, so that time passes without a scan: the page
\* sends prayer times and enabling settings at any time, scans are started
\* by the timer and by the page, one event at a time.
SchedNextMissed ==
  \/ Install(NewGen)
  \/ StartupStep
  \/ AllIdle /\ settingsStore = <<>> /\ timerSeq = 0 /\ Activate(NewGen)
  \/ Ready /\ \E data \in PrayerTimesPayloads : MsgUpdatePrayerTimes(data)
  \/ Ready /\ \E data \in SettingsPayloads :
       data.enabled /\ MsgUpdateNotificationSettings(data)
  \/ Ready /\ TimerFire
  \/ Ready /\ MsgCheckNotifications
  \/ Ready /\ Restart
  \/ TaskStep
  \/ Tick

\* The parser at work: the worker is activated, notifications are enabled
\* once, then snapshots that carry one time string, for fajr, are sent and
\* scanned, one event at a time, all at midnight.
SchedNextParse ==
  \/ Install(NewGen)
  \/ StartupStep
  \/ timerSeq = 0 /\ Activate(NewGen)
  \/ Ready /\ settingsStore = <<>>
       /\ \E data \in SettingsPayloads :
            data.enabled /\ MsgUpdateNotificationSettings(data)
  \/ Ready /\ settingsStore # <<>>
       /\ \E timeStr \in ParseInputs : MsgUpdatePrayerTimes([subh |-> timeStr])
  \/ Ready /\ MsgCheckNotifications
  \/ TaskStep

\* The round trip with a display that can fail and a scan whose put of the
\* fired record can fail in openDatabase; test notifications, push messages
\* and the user's clicks come in between the scans.
SchedNextScanFail ==
  \/ Install(NewGen)
  \/ StartupStep
  \/ AllIdle /\ settingsStore = <<>> /\ timerSeq = 0 /\ Activate(NewGen)
  \/ Ready /\ settingsStore = <<>>
       /\ \E data \in PrayerTimesPayloads : MsgUpdatePrayerTimes(data)
  \/ Ready /\ settingsStore = <<>>
       /\ \E data \in SettingsPayloads :
            data.enabled /\ MsgUpdateNotificationSettings(data)
  \/ Ready /\ TimerFire
  \/ Ready /\ MsgCheckNotifications
  \/ Ready /\ \E data \in TestPayloads : MsgTestNotification(data)
  \/ Ready /\ \E data \in PushPayloads, shown \in BOOLEAN : Push(data, shown)
  \/ Ready /\ \E tag \in DOMAIN displayed, action \in NotificationActions :
       NotificationClick(tag, action)
  \/ Ready /\ \E tag \in DOMAIN displayed : NotificationClose(tag)
  \/ Ready /\ MsgSkipWaiting
  \/ TaskStep
  \/ TestStep
  \/ \E k \in TaskIds : ShowFails(k)
  \/ \E k \in TaskIds : tasks[k].pc = "c_put" /\ OpenFails(k)
  \/ Tick

vars == <<schedVars, cacheVars>>

Init == SchedInit /\ CacheInit

Spec == Init /\ [][SchedNext]_vars
SpecSeq == Init /\ [][SchedNextSeq]_vars
SpecRoundTrip == Init /\ [][SchedNextRoundTrip]_vars
SpecRace == Init /\ [][SchedNextRace]_vars
SpecStoreFail == Init /\ [][SchedNextStoreFail]_vars
SpecInterleave == Init /\ [][SchedNextInterleave]_vars
SpecCacheRace == Init /\ [][CacheNextRace]_vars
SpecCacheFault == Init /\ [][CacheNextFault]_vars
SpecRestart == Init /\ [][SchedNextRestart]_vars
SpecMissed == Init /\ [][SchedNextMissed]_vars
SpecParse == Init /\ [][SchedNextParse]_vars
SpecScanFail == Init /\ [][SchedNextScanFail]_vars
SpecCache == Init /\ [][CacheNext]_vars
SpecUpgrade == Init /\ [][CacheNextUpgrade]_vars

\* ------------------------------------------------------------------------
\* Properties of the scheduler
\* ------------------------------------------------------------------------
StoredSettings == getNotificationSettings
StoredTimes == getPrayerTimes

\* No timer callback is waiting and no invocation is in flight.
Quiescent == AllIdle /\ due = {}

\* The time string the snapshot holds for a prayer ("" when it holds none).
TimeStrOf(prayerTimes, prayer) ==
  IF prayerTimes = Undefined THEN <<>> ELSE Prop(prayerTimes, timeMapping[prayer])

\* C1: two scans that interleave over the same pending entry inside its
\* window emit at most one notification for it: no <<prayer, fire time>> is
\* ever shown twice while only scans run after the recomputation.
C1_NoDoubleFire == \A x \in DOMAIN emitted : emitted[x] <= 1

\* C2: an entry is fired exactly once: a <<prayer, fire time>> that was
\* stored with notified = true is never again stored pending, and no
\* <<prayer, fire time>> is shown more than once, whatever scans and
\* recomputations follow one another.
C2_FiredOnce ==
  /\ \A p \in DOMAIN scheduledStore :
       ~scheduledStore[p].notified =>
          <<p, scheduledStore[p].time>> \notin everNotified
  /\ \A x \in DOMAIN emitted : emitted[x] <= 1

\* C3: idempotent firing.  When a scan has run to its end, every entry it
\* read that was pending inside the window is stored with notified = true
\* and was shown exactly once; every entry it read as already notified is
\* stored as it was and still was shown exactly once; an entry it left
\* pending is outside the window, stored as it was, and was never shown.
C3_IdempotentFiring ==
  \A k \in TaskIds :
    (tasks[k].kind = "scan" /\ tasks[k].pc = "done" /\ tasks[k].settings.enabled) =>
      \A i \in 1..Len(tasks[k].list) :
        LET e == tasks[k].list[i]
        IN  /\ e.id \in DOMAIN scheduledStore
            /\ scheduledStore[e.id] = e
            /\ e.notified => Count(e.id, e.time) = 1
            /\ ~e.notified =>
                 ~InWindow(e.time, tasks[k].now) /\ Count(e.id, e.time) = 0

\* A scan has ended that read an entry an earlier scan had fired: the entry
\* is notified, outside this scan's window, and was shown once.
C3_Witness ==
  \E k \in TaskIds :
    /\ tasks[k].kind = "scan" /\ tasks[k].pc = "done" /\ tasks[k].settings.enabled
    /\ \E i \in 1..Len(tasks[k].list) :
         LET e == tasks[k].list[i]
         IN  /\ e.notified
             /\ ~InWindow(e.time, tasks[k].now)
             /\ Count(e.id, e.time) = 1

\* What recomputation with these settings and snapshot at instant `now`
\* (clock reading clk) is to leave in the collection for a prayer.
Eligible(settings, prayerTimes, now, clk, prayer) ==
  /\ settings.prayers[prayer]
  /\ Len(TimeStrOf(prayerTimes, prayer)) > 0
  /\ parseTimeToDate(TimeStrOf(prayerTimes, prayer), clk) # NullDate
  /\ parseTimeToDate(TimeStrOf(prayerTimes, prayer), clk) > now

\* C9: when settings.enabled is true and a snapshot is stored, a
\* recomputation that has run to its end leaves in the collection exactly
\* one entry {id = prayer, notified = false, time = parsed instant, timeStr}
\* for each prayer that is enabled, has a non-empty time under its provider
\* key, parses, and is strictly later than now, and no other entry.
C9_RecomputeExact ==
  \A k \in TaskIds :
    (/\ tasks[k].kind = "sched" /\ tasks[k].pc = "done"
     /\ tasks[k].settings.enabled /\ tasks[k].pt # Undefined) =>
      /\ DOMAIN scheduledStore \subseteq Prayers
      /\ \A prayer \in Prayers :
           IF Eligible(tasks[k].settings, tasks[k].pt, tasks[k].now, clock, prayer)
           THEN /\ prayer \in DOMAIN scheduledStore
                /\ scheduledStore[prayer] =
                     [id |-> prayer, prayer |-> prayer,
                      time |-> parseTimeToDate(TimeStrOf(tasks[k].pt, prayer), clock),
                      timeStr |-> TimeStrOf(tasks[k].pt, prayer),
                      notified |-> FALSE]
           ELSE prayer \notin DOMAIN scheduledStore

\* A recomputation has ended whose snapshot has an unparseable time for
\* fajr, which is enabled, and dhuhr, later in the loop, is scheduled.
C9_Witness ==
  \E k \in TaskIds :
    /\ tasks[k].kind = "sched" /\ tasks[k].pc = "done"
    /\ tasks[k].settings.enabled /\ tasks[k].pt # Undefined
    /\ tasks[k].settings.prayers["fajr"]
    /\ TimeStrOf(tasks[k].pt, "fajr") = T_0001
    /\ "fajr" \notin DOMAIN scheduledStore
    /\ "dhuhr" \in DOMAIN scheduledStore
    /\ scheduledStore["dhuhr"].time = 2 * MS_PER_MINUTE
    /\ ~scheduledStore["dhuhr"].notified

\* The round trip has run: settings are stored, the recurring scan is set,
\* its callbacks have run and every invocation has settled.
RoundTripRun ==
  /\ settingsStore # <<>>
  /\ notificationCheckInterval # NullTimer
  /\ Quiescent

\* C10 as stated: after the round trip, with the clock past each fire time,
\* exactly one notification for every prayer that is enabled and has a time
\* in the snapshot, none for a prayer that is disabled or has no time.
C10_RoundTripAsStated ==
  RoundTripRun =>
    \A prayer \in Prayers :
      LET timeStr == TimeStrOf(StoredTimes, prayer)
          time == parseTimeToDate(timeStr, clock)
      IN  IF StoredSettings.prayers[prayer] /\ Len(timeStr) > 0
          THEN clock >= time =>
                 /\ Count(prayer, time) = 1
                 /\ \A x \in DOMAIN emitted : x[1] = prayer => x[2] = time
          ELSE \A x \in DOMAIN emitted : x[1] # prayer

\* C10, amended: exactly one notification for every prayer that is enabled
\* and whose time in the snapshot parses and is strictly later than the
\* `now` of the recomputation; none for any other prayer.
C10_RoundTrip ==
  \A prayer \in Prayers :
    LET timeStr == TimeStrOf(StoredTimes, prayer)
        time == parseTimeToDate(timeStr, clock)
    IN  IF /\ settingsStore # <<>>
           /\ Eligible(StoredSettings, StoredTimes, schedNow, clock, prayer)
        THEN /\ \A x \in DOMAIN emitted :
                  x[1] = prayer => x[2] = time /\ emitted[x] = 1
             /\ (RoundTripRun /\ clock >= time) => Count(prayer, time) = 1
        ELSE \A x \in DOMAIN emitted : x[1] # prayer

\* The round trip has run past both fire times of a snapshot in which fajr
\* and dhuhr are enabled and due later, sunrise is disabled, asr has no time
\* and maghrib's does not parse: one notification each for fajr and dhuhr.
C10_Witness ==
  /\ RoundTripRun
  /\ StoredSettings.prayers["fajr"]
  /\ ~StoredSettings.prayers["sunrise"]
  /\ TimeStrOf(StoredTimes, "sunrise") = T_1201_AM
  /\ TimeStrOf(StoredTimes, "maghrib") = T_7_PM
  /\ clock >= 2 * MS_PER_MINUTE
  /\ Count("fajr", MS_PER_MINUTE) = 1
  /\ Count("dhuhr", 2 * MS_PER_MINUTE) = 1
  /\ DOMAIN emitted = {<<"fajr", MS_PER_MINUTE>>, <<"dhuhr", 2 * MS_PER_MINUTE>>}

\* ------------------------------------------------------------------------
\* Properties of the cache router and the cache generation manager
\* ------------------------------------------------------------------------
\* The names of the partitions that exist.
PartitionNames == {cacheStorage[i].name : i \in 1..Len(cacheStorage)}

\* The entries of the partition of that name in a storage (none when it
\* does not exist).
EntriesIn(storage, name) ==
  IF \E i \in 1..Len(storage) : storage[i].name = name
  THEN storage[CHOOSE i \in 1..Len(storage) : storage[i].name = name].entries
  ELSE <<>>

EntriesOf(name) == EntriesIn(cacheStorage, name)

\* The copies stored for a request, over every partition.
StoredCopies(request) ==
  {cacheStorage[i].entries[request] :
     i \in {j \in 1..Len(cacheStorage) : request \in DOMAIN cacheStorage[j].entries}}

CurrentNames(g) == {CACHE_NAME(g), API_CACHE(g), OFFLINE_CACHE(g)}

\* The response is the copy with the one header added to it.
IsCopyWith(response, copy, header, value) ==
  /\ response.status = copy.status
  /\ response.body = copy.body
  /\ DOMAIN response.headers = DOMAIN copy.headers \cup {header}
  /\ response.headers[header] = value
  /\ \A h \in DOMAIN copy.headers \ {header} : response.headers[h] = copy.headers[h]

IsOffline503(response) ==
  /\ response.status = 503
  /\ response.body = "offline"
  /\ "sw-offline" \in DOMAIN response.headers

\* place.
C5_SubsequentHit ==
  \A j, k \in HandlerIds :
    ~(/\ handlers[j].kind = "core"
      /\ handlers[j].pc = "put"
      /\ ~handlers[j].detached
      /\ IsOk(handlers[j].net)
      /\ handlers[j].result = handlers[j].net
      /\ handlers[k].kind = "core"
      /\ handlers[k].pc = "c_fetch"
      /\ handlers[k].gen = handlers[j].gen
      /\ handlers[k].request = handlers[j].request)

\* began.
ActivatedTwice ==
  /\ worker[Latest] = "activated"
  /\ HandlersIdle
  /\ ~touched
  /\ actRuns >= 2

\* C7 as stated: after install and two runs of the activate step, exactly
\* the three current-generation partitions exist.
C7_ThreePartitions == ActivatedTwice => PartitionNames = CurrentNames(Latest)

\* C8: once the activation of generation v2.1.0 has completed, every
\* partition that exists bears one of the three names of that generation,
\* each at most once, and this stays so through later fetch handling and
\* control commands.
C8_OnlyCurrentPartitions ==
  worker[NewGen] = "activated" =>
    /\ PartitionNames \subseteq CurrentNames(NewGen)
    /\ Len(cacheStorage) = Cardinality(PartitionNames)

\* The upgrade from v2.0.0 was activated and the new generation has since
\* handled a default-class fetch that created its offline-fallback
\* partition.
C8_Witness ==
  /\ worker[NewGen] = "activated"
  /\ worker[OldGen] = "redundant"
  /\ touched
  /\ OFFLINE_CACHE(NewGen) \in PartitionNames

\* ------------------------------------------------------------------------
\* Missed entries, the scan timer, updates and the full replace
\* ------------------------------------------------------------------------
\* C11: an entry that a scan read pending with its fire time more than 60 s
\* before that scan's now is not shown by that scan nor by any scan after
\* it, and whenever the collection holds it, it holds it with notified =
\* false, whatever scans and recomputations follow one another.
C11_MissedNeverFired ==
  /\ \A k \in TaskIds :
       tasks[k].pc \in {"c_getTimes", "c_show", "c_put"} =>
         <<tasks[k].list[tasks[k].idx].id, tasks[k].list[tasks[k].idx].time>> \notin missed
  /\ \A p \in DOMAIN scheduledStore :
       <<p, scheduledStore[p].time>> \in missed => ~scheduledStore[p].notified

\* An entry was missed, a recomputation after that cleared the collection
\* without creating the entry again, and the scan that ran last read a
\* collection without it.
C11_Witness ==
  \E k \in TaskIds :
    /\ tasks[k].kind = "scan"
    /\ tasks[k].pc = "done"
    /\ tasks[k].settings # Undefined
    /\ tasks[k].settings.enabled
    /\ \E x \in missed : schedNow > x[2] + WINDOW_MS
    /\ \A i \in 1..Len(tasks[k].list) :
         <<tasks[k].list[i].id, tasks[k].list[i].time>> \notin missed

\* C12: the intervals that are set never accumulate: after any number of
\* activations at most one 30 s interval is set, it is the one the handle
\* notificationCheckInterval names, and only it can come due.
C12_SingleTimer ==
  /\ Cardinality(timers) <= 1
  /\ timers = IF notificationCheckInterval = NullTimer
              THEN {} ELSE {notificationCheckInterval}
  /\ due \subseteq timers

\* The worker has been activated at least twice, time has passed and the
\* interval of the last activation is due.
C12_Witness ==
  /\ timerSeq >= 2
  /\ clock > 0
  /\ due = {notificationCheckInterval}

\* C19: every invocation of scheduleNotifications, whatever the settings and
\* the snapshot, leaves in the collection only entries it created itself:
\* when it has run to its end, every entry of the collection is the pending
\* entry of a prayer that is eligible under the settings and the snapshot
\* this invocation read (none when notifications are disabled or no
\* snapshot is stored).
C19_FullReplace ==
  \A k \in TaskIds :
    (tasks[k].kind = "sched" /\ tasks[k].pc = "done") =>
      \A p \in DOMAIN scheduledStore :
        /\ tasks[k].settings.enabled
        /\ tasks[k].pt # Undefined
        /\ Eligible(tasks[k].settings, tasks[k].pt, tasks[k].now, clock, p)
        /\ scheduledStore[p] =
             [id |-> p, prayer |-> p,
              time |-> parseTimeToDate(TimeStrOf(tasks[k].pt, p), clock),
              timeStr |-> TimeStrOf(tasks[k].pt, p),
              notified |-> FALSE]

\* The entry recomputation at instant `now` derives for a prayer.
DerivedEntry(prayerTimes, clk, prayer) ==
  [id |-> prayer, prayer |-> prayer,
   time |-> parseTimeToDate(TimeStrOf(prayerTimes, prayer), clk),
   timeStr |-> TimeStrOf(prayerTimes, prayer),
   notified |-> FALSE]

\* C13: when an UPDATE_NOTIFICATION_SETTINGS (UPDATE_PRAYER_TIMES) message
\* has been handled, the stored settings record (snapshot, stamped with
\* updatedAt) is the record built from the payload, with no field of the
\* record it replaced, and the collection holds exactly the pending entries
\* recomputation derives from the records now stored: none when the stored
\* settings disable notifications or no snapshot is stored.
C13_UpdateThenRecompute ==
  \A k \in TaskIds :
    (tasks[k].kind = "sched" /\ tasks[k].pc = "done" /\ tasks[k].data # Undefined) =>
      /\ tasks[k].data.id = "notifications" =>
            dbGet(settingsStore, "notifications") = tasks[k].data
      /\ tasks[k].data.id = "today" =>
            dbGet(prayerTimesStore, "today") = tasks[k].data
      /\ \A prayer \in Prayers :
           IF /\ StoredSettings.enabled
              /\ StoredTimes # Undefined
              /\ Eligible(StoredSettings, StoredTimes, tasks[k].now, clock, prayer)
           THEN /\ prayer \in DOMAIN scheduledStore
                /\ scheduledStore[prayer] = DerivedEntry(StoredTimes, clock, prayer)
           ELSE prayer \notin DOMAIN scheduledStore

\* C16: a failure of the local store, while it is opened or while a
\* transaction or request runs, never ends an invocation with an error:
\* dbGet, dbGetAll, dbPut and dbClear resolve and the scan, recomputation or
\* update that called them runs to its end.
C16_NoUncaughtError == \A k \in TaskIds : tasks[k].pc # "rejected"

\* C20: scans and recomputations that interleave at their awaits leave the
\* collection a sequential order of the same operations leaves.  With every
\* settings payload enabling notifications, the last recomputation of a
\* sequential order ran on the records that are stored at the end, so when
\* every invocation has settled each entry of the collection is for a
\* prayer the stored settings enable and carries the time string the stored
\* snapshot holds for it: no entry that a recomputation removed or replaced
\* has been written back, and all entries derive from one settings and
\* snapshot pair.
C20_Serializable ==
  (AllIdle /\ settingsStore # <<>> /\ prayerTimesStore # <<>>) =>
    \A p \in DOMAIN scheduledStore :
      /\ StoredSettings.prayers[p]
      /\ scheduledStore[p].timeStr = TimeStrOf(StoredTimes, p)

\* C17: install is best-effort per file: when the core assets have been
\* fetched, whatever subset of the fetches failed, every core asset whose
\* own fetch succeeded is in the core-assets partition of the generation
\* that is being installed.
C17_BestEffortPerFile ==
  \A k \in HandlerIds :
    (handlers[k].kind = "install" /\ handlers[k].core = "done") =>
      \A i \in (1..Len(CORE_ASSETS)) \ handlers[k].failing :
        CoreRequests[i] \in DOMAIN EntriesOf(CACHE_NAME(handlers[k].gen))

\* C14: CLEAR_CACHE and FORCE_UPDATE clear unconditionally, fetch handlers
\* in flight or not: when clearAllCaches has deleted the partitions it
\* listed, from where CLEAR_CACHE goes on to its reply and FORCE_UPDATE to
\* the reload of the pages, no partition of any name exists.
C14_ClearedAtReply ==
  [][\A k \in HandlerIds :
       (handlers[k].pc = "m_delete" /\ handlers'[k].pc \in {"m_reply", "m_navigate"}) =>
         cacheStorage' = <<>>]_vars

\* C15: a cache-write failure never costs the page its response: a fetch
\* handler whose network request returned an ok response returns that
\* response, whether the partition could be opened, the copy built and the
\* put stored or not.
C15_LiveResponseKept ==
  \A k \in HandlerIds :
    (/\ handlers[k].kind \in {"api", "core", "network"}
     /\ handlers[k].pc = "done"
     /\ handlers[k].net # Undefined
     /\ IsOk(handlers[k].net)) =>
      handlers[k].result = handlers[k].net

\* C18: the reply channel is optional: no command handler ends with an
\* error, whether the message carries a reply port or not.
C18_PortOptional == \A k \in HandlerIds : handlers[k].pc # "m_error"

\* ------------------------------------------------------------------------
\* Residency, the collection's shape, parsing, display and storing
\* ------------------------------------------------------------------------
\* C21: whenever the process of the activated worker is resident, whichever
\* start of the process it is, exactly one 30 s interval is set.
C21_TimerWhileResident ==
  timerSeq >= 1 => Cardinality(timers) = 1

\* C22 as stated: every record that is written to the collection, by a
\* recomputation or by a scan, has a fire time strictly later than the
\* clock at the moment it is written.
C22_FutureWhenWritten ==
  [][\A p \in DOMAIN scheduledStore' :
       (p \notin DOMAIN scheduledStore \/ scheduledStore'[p] # scheduledStore[p]) =>
         scheduledStore'[p].time > clock']_vars

\* C22: the collection holds at most one entry per prayer name (the entry
\* stored under a key has that key as its id and prayer), every id is one
\* of the six prayer names, and every entry was created by a recomputation
\* and has a fire time strictly later than the instant `now` which that
\* recomputation read after it cleared the collection.
C22_EntriesWellFormed ==
  /\ DOMAIN scheduledStore \subseteq Prayers
  /\ Cardinality(Prayers) = 6
  /\ \A p \in DOMAIN scheduledStore :
       /\ scheduledStore[p].id = p
       /\ scheduledStore[p].prayer = p
       /\ <<p, scheduledStore[p].time>> \in DOMAIN createdNow
       /\ scheduledStore[p].time > createdNow[<<p, scheduledStore[p].time>>]

\* A recomputation that ran after midnight created an entry, and a scan
\* has rewritten it with notified = true after its fire time had passed.
C22_Witness ==
  \E p \in DOMAIN scheduledStore :
    /\ scheduledStore[p].notified
    /\ scheduledStore[p].time < clock
    /\ <<p, scheduledStore[p].time>> \in DOMAIN createdNow
    /\ createdNow[<<p, scheduledStore[p].time>>] > 0
    /\ scheduledStore[p].time > createdNow[<<p, scheduledStore[p].time>>]

\* The string holds an AM or PM marker.
HasMeridiem(timeStr) ==
  \E i \in 1..(Len(timeStr) - 1) :
    timeStr[i] \in {"A", "a", "P", "p"} /\ timeStr[i + 1] \in {"M", "m"}

\* The instant of the 24-hour equivalent of the string's 12-hour reading
\* h:mm AM / h:mm PM on the day the clock is in: h mod 12 for AM,
\* (h mod 12) + 12 for PM, seconds 0.
InstantOfReading(timeStr, clk) ==
  LET i == CHOOSE m \in MatchStarts(timeStr) :
             \A n \in MatchStarts(timeStr) : m <= n
      d == IF MatchAt(timeStr, i, 2) THEN 2 ELSE 1
      h == IF d = 2
           THEN 10 * DigitVal(timeStr[i]) + DigitVal(timeStr[i + 1])
           ELSE DigitVal(timeStr[i])
      mm == 10 * DigitVal(timeStr[i + d + 1]) + DigitVal(timeStr[i + d + 2])
      j == SkipSpaces(timeStr, i + d + 3)
      h24 == IF timeStr[j] \in {"P", "p"} THEN (h % 12) + 12 ELSE h % 12
  IN  StartOfDay(clk) + h24 * MS_PER_HOUR + mm * MS_PER_MINUTE

\* C23: every entry recomputation creates has its fire instant on the day
\* the clock is in, at the 24-hour equivalent of the 12-hour reading of its
\* time string, and its time string is not empty and has an AM or PM
\* marker.
C23_ParsedAsRead ==
  \A p \in DOMAIN scheduledStore :
    LET e == scheduledStore[p]
    IN  /\ Len(e.timeStr) > 0
        /\ HasMeridiem(e.timeStr)
        /\ StartOfDay(e.time) = StartOfDay(clock)
        /\ e.time = InstantOfReading(e.timeStr, clock)

\* C24: an entry is stored with notified = true only if a notification for
\* it was displayed.
C24_NotifiedOnlyIfShown ==
  \A p \in DOMAIN scheduledStore :
    scheduledStore[p].notified => Count(p, scheduledStore[p].time) >= 1

\* C25: an entry of the collection yields at most one notification, also
\* when the put that was to store notified = true failed and the failure
\* was swallowed.
C25_OnceDespitePutFailure ==
  \A p \in DOMAIN scheduledStore : Count(p, scheduledStore[p].time) <= 1

\* The network answered, with a status outside 200..299.
AnsweredNotOk(h) ==
  /\ h.net # Undefined
  /\ h.net # NetworkError
  /\ ~(h.net.status >= 200 /\ h.net.status <= 299)

\* C26: only ok responses are stored or passed through.  No step leaves a
\* response whose status is outside 200..299 in a partition, whether a fetch
\* handler or the install pre-fetch stores; and a fetch handler that settles
\* after the network answered with such a status does not return that
\* response but what it returns when the fetch fails: handleApiRequest and
\* handleNetworkRequest a stored copy of the request when there is one (with
\* sw-from-cache for the API handler) and the 503 offline response when
\* there is none, handleCoreAssetRequest, which looked for a copy before it
\* called the network, the 503 offline response.
C26_OnlyOkStoredOrReturned ==
  [][/\ \A i \in 1..Len(cacheStorage') :
          \A r \in DOMAIN cacheStorage'[i].entries :
            /\ cacheStorage'[i].entries[r].status >= 200
            /\ cacheStorage'[i].entries[r].status <= 299
     /\ \A k \in HandlerIds :
          LET h == handlers[k]
              after == handlers'[k]
              copies == StoredCopies(h.request)
          IN (/\ h.kind \in {"api", "core", "network"}
              /\ h.pc # "done"
              /\ after.pc = "done"
              /\ AnsweredNotOk(after)) =>
               /\ after.result # after.net
               /\ after.result.status # after.net.status
               /\ (h.kind = "api" /\ copies # {}) =>
                    \E c \in copies : IsCopyWith(after.result, c, "sw-from-cache", "true")
               /\ (h.kind = "network" /\ copies # {}) => after.result \in copies
               /\ (h.kind = "core" \/ copies = {}) => IsOffline503(after.result)]_vars

\* The network answered an API request with 404 and the handler has
\* returned the copy stored earlier, marked sw-from-cache; another handler
\* kind is covered by the 503 case of the same run.
C26_Witness ==
  \E k \in HandlerIds :
    /\ handlers[k].kind = "api"
    /\ handlers[k].pc = "done"
    /\ AnsweredNotOk(handlers[k])
    /\ handlers[k].net.status = 404
    /\ handlers[k].result.status = 200
    /\ "sw-from-cache" \in DOMAIN handlers[k].result.headers
    /\ StoredCopies(handlers[k].request) # {}

\* The partition of a generation that belongs to a traffic class.
ClassPartition(g, class) ==
  IF class = "api" THEN API_CACHE(g)
  ELSE IF class = "core" THEN CACHE_NAME(g)
  ELSE OFFLINE_CACHE(g)

\* The requests a handler or the install can store, and the traffic class
\* the fetch listener puts each of them in.
StorableRequests ==
  Requests \cup {CoreRequests[i] : i \in 1..Len(CoreRequests)}
           \cup {API_ENDPOINTS[i] : i \in 1..Len(API_ENDPOINTS)}

ClassOf == [r \in StorableRequests |-> HandlerFor(r)]

\* C27: partition isolation.  Every stored response lives in the partition,
\* of some generation, of the traffic class the fetch listener puts its
\* request in: /v1/ paths in the API partition, the enumerated shell files
\* in core-assets, everything else in offline-fallback; so caches.match,
\* which searches every partition, finds for a request only copies stored
\* in the partition of the request's own class.
C27_PartitionIsolation ==
  \A i \in 1..Len(cacheStorage) :
    \A r \in DOMAIN cacheStorage[i].entries :
      /\ r \in StorableRequests
      /\ \E g \in Gens : cacheStorage[i].name = ClassPartition(g, ClassOf[r])

\* The latest generation is activated and each of its three partitions
\* holds a request of its class: the install batch and a core miss, an API
\* response, and a response of the default handler.
C27_Witness ==
  /\ worker[NewGen] = "activated"
  /\ \E r \in Requests :
       HandlerFor(r) = "api" /\ r \in DOMAIN EntriesOf(API_CACHE(NewGen))
  /\ \E r \in Requests :
       HandlerFor(r) = "network" /\ r \in DOMAIN EntriesOf(OFFLINE_CACHE(NewGen))
  /\ \A j \in 1..Len(CoreRequests) :
       /\ HandlerFor(CoreRequests[j]) = "core"
       /\ CoreRequests[j] \in DOMAIN EntriesOf(CACHE_NAME(NewGen))

====
